---- MODULE Spec2Model ----
(***************************************************************************)
(* A model of the security and proxy decision pipeline of the FastAPI web  *)
(* server: SecurityManager (app/security.py), AttackMonitor                *)
(* (app/monitoring.py) and the static-file / proxy handlers (app/main.py). *)
(*                                                                         *)
(* Python strings are sequences of one-character strings, so that the      *)
(* substring, suffix, lower-casing and formatting operations of the code   *)
(* are computed and not assumed.  Python dicts are functions whose DOMAIN  *)
(* is the set of keys present.                                             *)
(***************************************************************************)
EXTENDS Integers, Sequences, FiniteSets, TLC

VARIABLES
    config,            \* SecurityManager.config
    now,               \* the clock read by time.time()
    blocked_ips,       \* SecurityManager.blocked_ips : ip -> block start time
    request_counts,    \* SecurityManager.request_counts : ip -> timestamps
    attack_stats,      \* AttackMonitor.attack_stats
    recent_attacks,    \* AttackMonitor.recent_attacks (deque, maxlen 1000)
    ip_threat_scores,  \* AttackMonitor.ip_threat_scores
    log_files,         \* the attack, blocked and suspicious log files
    response,          \* the answer to the request handled last
    trace,             \* history: one record per request handled
    classified,        \* input and result of the last is_suspicious_request
    static_files,      \* the files and directories under STATIC_ROOT
    client_cache       \* history: the ETag a client last got for each file

secVars == <<config, now, blocked_ips, request_counts, response, trace>>
monVars == <<attack_stats, recent_attacks, ip_threat_scores, log_files>>
srvVars == <<static_files, client_cache>>
vars == <<secVars, monVars, classified, srvVars>>

None == "None"

----------------------------------------------------------------------------
(* Strings *)

UpperChars ==
    <<"A","B","C","D","E","F","G","H","I","J","K","L","M",
      "N","O","P","Q","R","S","T","U","V","W","X","Y","Z">>

LowerChars ==
    <<"a","b","c","d","e","f","g","h","i","j","k","l","m",
      "n","o","p","q","r","s","t","u","v","w","x","y","z">>

\* str.lower() on one character
LowerChar(c) ==
    IF \E i \in DOMAIN UpperChars : UpperChars[i] = c
    THEN LowerChars[CHOOSE i \in DOMAIN UpperChars : UpperChars[i] = c]
    ELSE c

\* str.lower()
Lower(s) == [i \in DOMAIN s |-> LowerChar(s[i])]

\* pattern in s  (substring test)
Contains(s, pattern) ==
    \E i \in 0..(Len(s) - Len(pattern)) :
        SubSeq(s, i + 1, i + Len(pattern)) = pattern

\* s.endswith(suffix)
EndsWith(s, suffix) ==
    /\ Len(suffix) <= Len(s)
    /\ SubSeq(s, Len(s) - Len(suffix) + 1, Len(s)) = suffix

\* s.startswith(prefix)
StartsWith(s, prefix) ==
    /\ Len(prefix) <= Len(s)
    /\ SubSeq(s, 1, Len(prefix)) = prefix

RECURSIVE Join(_, _)
\* sep.join(parts)
Join(parts, sep) ==
    IF parts = << >> THEN << >>
    ELSE IF Len(parts) = 1 THEN parts[1]
    ELSE parts[1] \o sep \o Join(Tail(parts), sep)

----------------------------------------------------------------------------
(* The pattern catalog of SecurityManager.__init__ *)

SuspiciousPaths ==
    { <<".", "e", "n", "v">>,
      <<".", "g", "i", "t", "/", "c", "o", "n", "f", "i", "g">>,
      <<".", "g", "i", "t", "/", "H", "E", "A", "D">>,
      <<".", "g", "i", "t", "/", "c", "r", "e", "d", "e", "n", "t", "i", "a", "l", "s">>,
      <<"a", "d", "m", "i", "n", "/", "c", "o", "n", "f", "i", "g", ".", "p", "h", "p">>,
      <<"p", "h", "p", "i", "n", "f", "o", ".", "p", "h", "p">>,
      <<"i", "n", "f", "o", ".", "p", "h", "p">>,
      <<"p", "h", "p", "i", "n", "f", "o">>,
      <<"c", "o", "n", "f", "i", "g", ".", "j", "s", "o", "n">>,
      <<"c", "l", "i", "e", "n", "t", "_", "s", "e", "c", "r", "e", "t", "s", ".", "j", "s", "o", "n">>,
      <<"a", "p", "p", "s", "e", "t", "t", "i", "n", "g", "s", ".", "j", "s", "o", "n">>,
      <<"a", "c", "t", "u", "a", "t", "o", "r", "/", "e", "n", "v">>,
      <<"a", "c", "t", "u", "a", "t", "o", "r", "/", "h", "e", "a", "l", "t", "h">>,
      <<"d", "e", "b", "u", "g", "/", "d", "e", "f", "a", "u", "l", "t", "/", "v", "i", "e", "w">>,
      <<"v", "2", "/", "_", "c", "a", "t", "a", "l", "o", "g">>,
      <<"_", "a", "l", "l", "_", "d", "b", "s">>,
      <<"s", "e", "r", "v", "e", "r", "-", "s", "t", "a", "t", "u", "s">>,
      <<"o", "w", "a", "/", "a", "u", "t", "h", "/", "l", "o", "g", "o", "n", ".", "a", "s", "p", "x">>,
      <<"e", "c", "p", "/", "C", "u", "r", "r", "e", "n", "t", "/", "e", "x", "p", "o", "r", "t", "t", "o", "o", "l", "/">>,
      <<"+", "C", "S", "C", "O", "L", "+", "/">>,
      <<"+", "C", "S", "C", "O", "E", "+", "/">>,
      <<"c", "g", "i", "-", "b", "i", "n", "/", "l", "u", "c", "i", "/">>,
      <<"v", "e", "n", "d", "o", "r", "/", "p", "h", "p", "u", "n", "i", "t", "/", "p", "h", "p", "u", "n", "i", "t", "/", "s", "r", "c", "/", "U", "t", "i", "l", "/", "P", "H", "P", "/", "e", "v", "a", "l", "-", "s", "t", "d", "i", "n", ".", "p", "h", "p">>,
      <<"_", "p", "r", "o", "f", "i", "l", "e", "r", "/", "p", "h", "p", "i", "n", "f", "o">>,
      <<"w", "e", "b", "/", "d", "e", "b", "u", "g", "/", "d", "e", "f", "a", "u", "l", "t", "/", "v", "i", "e", "w">>,
      <<".", "w", "e", "l", "l", "-", "k", "n", "o", "w", "n", "/", "s", "e", "c", "u", "r", "i", "t", "y", ".", "t", "x", "t">>,
      <<"s", "i", "t", "e", "m", "a", "p", ".", "x", "m", "l">>,
      <<"r", "o", "b", "o", "t", "s", ".", "t", "x", "t">>,
      <<"l", "o", "g", "i", "n">>,
      <<"l", "o", "g", "i", "n", ".", "a", "c", "t", "i", "o", "n">>,
      <<"a", "d", "m", "i", "n">>,
      <<"w", "p", "-", "a", "d", "m", "i", "n">>,
      <<"b", "a", "c", "k", "u", "p">>,
      <<"b", "a", "c", "k", "u", "p", ".", "z", "i", "p">>,
      <<"d", "u", "m", "p", ".", "s", "q", "l">>,
      <<"d", "a", "t", "a", "b", "a", "s", "e", ".", "s", "q", "l">>,
      <<"c", "o", "n", "f", "i", "g", ".", "p", "h", "p">>,
      <<"s", "e", "t", "t", "i", "n", "g", "s", ".", "p", "h", "p">>,
      <<"w", "p", "-", "c", "o", "n", "f", "i", "g", ".", "p", "h", "p">>,
      <<".", "D", "S", "_", "S", "t", "o", "r", "e">>,
      <<"T", "h", "u", "m", "b", "s", ".", "d", "b">>,
      <<"d", "e", "s", "k", "t", "o", "p", ".", "i", "n", "i">> }

SuspiciousExtensions ==
    { <<".", "e", "n", "v">>,
      <<".", "b", "a", "k">>,
      <<".", "o", "l", "d">>,
      <<".", "b", "a", "c", "k", "u", "p">>,
      <<".", "d", "i", "s", "t">>,
      <<".", "e", "x", "a", "m", "p", "l", "e">>,
      <<".", "p", "e", "m">>,
      <<".", "k", "e", "y">>,
      <<".", "c", "e", "r", "t">>,
      <<".", "c", "r", "t">>,
      <<".", "p", "f", "x">>,
      <<".", "p", "1", "2">>,
      <<".", "s", "q", "l">>,
      <<".", "d", "u", "m", "p">>,
      <<".", "b", "a", "c", "k">>,
      <<".", "s", "a", "v", "e">>,
      <<".", "l", "o", "g">>,
      <<".", "t", "x", "t">>,
      <<".", "i", "n", "i">>,
      <<".", "c", "o", "n", "f">>,
      <<".", "c", "f", "g">>,
      <<".", "y", "m", "l">>,
      <<".", "y", "a", "m", "l">>,
      <<".", "j", "s", "o", "n">>,
      <<".", "x", "m", "l">>,
      <<".", "p", "h", "p">>,
      <<".", "a", "s", "p">>,
      <<".", "a", "s", "p", "x">>,
      <<".", "j", "s", "p">>,
      <<".", "p", "y">>,
      <<".", "r", "b">> }

\* mutant: the catalog of parameters without union, select, insert, drop
SuspiciousParams_no_sql ==
    { <<"c", "m", "d">>,
      <<"e", "x", "e", "c">>,
      <<"s", "y", "s", "t", "e", "m">>,
      <<"e", "v", "a", "l">>,
      <<"s", "h", "e", "l", "l">>,
      <<"b", "a", "s", "h">>,
      <<"p", "h", "p">>,
      <<"p", "y", "t", "h", "o", "n">>,
      <<"p", "e", "r", "l">>,
      <<"r", "u", "b", "y">>,
      <<"j", "a", "v", "a", "s", "c", "r", "i", "p", "t">>,
      <<"u", "p", "d", "a", "t", "e">>,
      <<"d", "e", "l", "e", "t", "e">>,
      <<"c", "r", "e", "a", "t", "e">>,
      <<"a", "l", "t", "e", "r">>,
      <<"t", "r", "u", "n", "c", "a", "t", "e">>,
      <<"s", "c", "r", "i", "p", "t">>,
      <<"a", "l", "e", "r", "t">>,
      <<"d", "o", "c", "u", "m", "e", "n", "t", ".", "c", "o", "o", "k", "i", "e">>,
      <<"o", "n", "l", "o", "a", "d">>,
      <<"o", "n", "e", "r", "r", "o", "r">>,
      <<"o", "n", "c", "l", "i", "c", "k">>,
      <<"o", "n", "m", "o", "u", "s", "e", "o", "v", "e", "r">> }

SuspiciousParams ==
    { <<"c", "m", "d">>,
      <<"e", "x", "e", "c">>,
      <<"s", "y", "s", "t", "e", "m">>,
      <<"e", "v", "a", "l">>,
      <<"s", "h", "e", "l", "l">>,
      <<"b", "a", "s", "h">>,
      <<"p", "h", "p">>,
      <<"p", "y", "t", "h", "o", "n">>,
      <<"p", "e", "r", "l">>,
      <<"r", "u", "b", "y">>,
      <<"j", "a", "v", "a", "s", "c", "r", "i", "p", "t">>,
      <<"u", "n", "i", "o", "n">>,
      <<"s", "e", "l", "e", "c", "t">>,
      <<"i", "n", "s", "e", "r", "t">>,
      <<"u", "p", "d", "a", "t", "e">>,
      <<"d", "e", "l", "e", "t", "e">>,
      <<"d", "r", "o", "p">>,
      <<"c", "r", "e", "a", "t", "e">>,
      <<"a", "l", "t", "e", "r">>,
      <<"t", "r", "u", "n", "c", "a", "t", "e">>,
      <<"s", "c", "r", "i", "p", "t">>,
      <<"a", "l", "e", "r", "t">>,
      <<"d", "o", "c", "u", "m", "e", "n", "t", ".", "c", "o", "o", "k", "i", "e">>,
      <<"o", "n", "l", "o", "a", "d">>,
      <<"o", "n", "e", "r", "r", "o", "r">>,
      <<"o", "n", "c", "l", "i", "c", "k">>,
      <<"o", "n", "m", "o", "u", "s", "e", "o", "v", "e", "r">> }

SqlPatterns ==
    { <<"u", "n", "i", "o", "n", " ", "s", "e", "l", "e", "c", "t">>,
      <<"s", "e", "l", "e", "c", "t", " ", "*", " ", "f", "r", "o", "m">>,
      <<"i", "n", "s", "e", "r", "t", " ", "i", "n", "t", "o">>,
      <<"d", "r", "o", "p", " ", "t", "a", "b", "l", "e">> }

----------------------------------------------------------------------------
(* str(request.query_params): Starlette keeps the parsed (key, value)      *)
(* pairs and renders them with urllib.parse.urlencode, which applies       *)
(* quote_plus to every key and value.                                      *)

SafeChars ==
    { LowerChars[i] : i \in DOMAIN LowerChars } \cup
    { UpperChars[i] : i \in DOMAIN UpperChars } \cup
    { "0", "1", "2", "3", "4", "5", "6", "7", "8", "9", "_", ".", "-", "~" }

\* quote_plus on one character
QuotePlusChar(c) ==
    IF c \in SafeChars THEN <<c>>
    ELSE IF c = " " THEN <<"+">>
    ELSE IF c = "*" THEN <<"%", "2", "A">>
    ELSE IF c = "/" THEN <<"%", "2", "F">>
    ELSE IF c = "=" THEN <<"%", "3", "D">>
    ELSE IF c = "'" THEN <<"%", "2", "7">>
    ELSE IF c = "<" THEN <<"%", "3", "C">>
    ELSE IF c = ">" THEN <<"%", "3", "E">>
    ELSE IF c = "(" THEN <<"%", "2", "8">>
    ELSE IF c = ")" THEN <<"%", "2", "9">>
    ELSE <<"%", "x", "x">>

RECURSIVE QuotePlus(_)
QuotePlus(s) ==
    IF s = << >> THEN << >> ELSE QuotePlusChar(Head(s)) \o QuotePlus(Tail(s))

\* str(QueryParams): "k1=v1&k2=v2"
QueryString(params) ==
    Join([i \in DOMAIN params |->
              QuotePlus(params[i][1]) \o <<"=">> \o QuotePlus(params[i][2])],
         <<"&">>)

----------------------------------------------------------------------------
(* SecurityManager.is_suspicious_request                                   *)
(* The result is (is_suspicious, reason).  The reason is modelled as the   *)
(* rule group that decided plus the patterns of that group that match: the *)
(* code iterates over a Python set, whose order is arbitrary, so any        *)
(* matching pattern of the first matching group can be the one reported.   *)

G_PATH == "Suspicious path pattern"
G_EXT == "Suspicious file extension"
G_PARAM == "Suspicious parameter"
G_TRAVERSAL == "Directory traversal attempt"
G_SQL == "SQL injection pattern"

MatchPaths(path) == { p \in SuspiciousPaths : Contains(path, p) }
MatchExtensions(path) == { e \in SuspiciousExtensions : EndsWith(path, e) }
MatchParams(qs) == { p \in SuspiciousParams : Contains(qs, p) }
MatchTraversal(path) ==
    Contains(path, <<".", ".">>) \/ Contains(path, <<".", ".", "/">>)
MatchSql(qs) == { p \in SqlPatterns : Contains(qs, p) }

NotSuspicious == [suspicious |-> FALSE, group |-> "", patterns |-> {}]

\* mutant: the extensions are checked before the paths
is_suspicious_request_extfirst(cfg, req) ==
    IF ~cfg.enable_threat_detection THEN NotSuspicious
    ELSE
      LET path == Lower(req.path)
          query_string == Lower(QueryString(req.query))
      IN  IF MatchExtensions(path) # {}
          THEN [suspicious |-> TRUE, group |-> G_EXT,
                patterns |-> MatchExtensions(path)]
          ELSE IF MatchPaths(path) # {}
          THEN [suspicious |-> TRUE, group |-> G_PATH,
                patterns |-> MatchPaths(path)]
          ELSE IF MatchParams(query_string) # {}
          THEN [suspicious |-> TRUE, group |-> G_PARAM,
                patterns |-> MatchParams(query_string)]
          ELSE IF MatchTraversal(path)
          THEN [suspicious |-> TRUE, group |-> G_TRAVERSAL, patterns |-> {}]
          ELSE IF MatchSql(query_string) # {}
          THEN [suspicious |-> TRUE, group |-> G_SQL,
                patterns |-> MatchSql(query_string)]
          ELSE NotSuspicious

is_suspicious_request(cfg, req) ==
    IF ~cfg.enable_threat_detection THEN NotSuspicious
    ELSE
      LET path == Lower(req.path)
          query_string == Lower(QueryString(req.query))
      IN  IF MatchPaths(path) # {}
          THEN [suspicious |-> TRUE, group |-> G_PATH,
                patterns |-> MatchPaths(path)]
          ELSE IF MatchExtensions(path) # {}
          THEN [suspicious |-> TRUE, group |-> G_EXT,
                patterns |-> MatchExtensions(path)]
          ELSE IF MatchParams(query_string) # {}
          THEN [suspicious |-> TRUE, group |-> G_PARAM,
                patterns |-> MatchParams(query_string)]
          ELSE IF MatchTraversal(path)
          THEN [suspicious |-> TRUE, group |-> G_TRAVERSAL, patterns |-> {}]
          ELSE IF MatchSql(query_string) # {}
          THEN [suspicious |-> TRUE, group |-> G_SQL,
                patterns |-> MatchSql(query_string)]
          ELSE NotSuspicious

----------------------------------------------------------------------------
(* Python dicts *)

EmptyDict == [k \in {} |-> 0]

\* d.get(k, dflt), and d[k] of a defaultdict as far as the value goes
DictGet(d, k, dflt) == IF k \in DOMAIN d THEN d[k] ELSE dflt

\* d[k] = v
DictSet(d, k, v) == [x \in (DOMAIN d) \cup {k} |-> IF x = k THEN v ELSE d[x]]

\* del d[k]
DictDel(d, k) == [x \in (DOMAIN d) \ {k} |-> d[x]]

----------------------------------------------------------------------------
(* AttackMonitor (app/monitoring.py)                                       *)
(* The operators below take and return the state `st` of the two global    *)
(* objects security_manager and attack_monitor:                            *)
(*   blocked_ips, request_counts          (SecurityManager)                *)
(*   attack_stats, recent_attacks, ip_threat_scores, log_files             *)
(*                                         (AttackMonitor)                 *)

\* deque(maxlen=1000)
RECENT_ATTACKS_MAXLEN == 1000

\* AttackMonitor.config as set by __init__
monitor_config ==
    [enable_detailed_logging |-> TRUE,
     threat_score_threshold |-> 10,
     alert_on_major_attacks |-> TRUE]

InitAttackStats ==
    [total_attacks |-> 0, blocked_requests |-> 0, suspicious_requests |-> 0,
     rate_limit_hits |-> 0, ip_blocks |-> 0, attack_types |-> EmptyDict]

\* the request argument left out (request: Request = None)
NoRequest == [present |-> FALSE]

InitLogFiles == [attacks |-> << >>, blocked |-> << >>, suspicious |-> << >>]

HighThreat == {"sql_injection", "rce", "path_traversal", "file_inclusion"}
MediumThreat == {"xss_attacks", "directory_traversal", "csrf"}
LowThreat == {"scanning", "probing", "information_gathering"}

_calculate_threat_level(attack_type) ==
    IF attack_type \in HighThreat THEN "HIGH"
    ELSE IF attack_type \in MediumThreat THEN "MEDIUM"
    ELSE IF attack_type \in LowThreat THEN "LOW"
    ELSE "UNKNOWN"

score_map == [HIGH |-> 5, MEDIUM |-> 3, LOW |-> 1, UNKNOWN |-> 2]

_get_threat_score(attack_type) ==
    LET threat_level == _calculate_threat_level(attack_type)
    IN  IF threat_level \in DOMAIN score_map THEN score_map[threat_level] ELSE 2

\* mutant: a deque without maxlen
DequeAppend_unbounded(q, e) ==
    Append(q, e)

\* deque.append on a deque with maxlen: when full, the oldest entry is dropped
DequeAppend(q, e) ==
    IF Len(q) >= RECENT_ATTACKS_MAXLEN THEN Append(Tail(q), e) ELSE Append(q, e)

\* _write_attack_log / _write_blocked_log / _write_suspicious_log: append one
\* line to the day's file; an exception of open/write is caught and the file
\* is left as it was.
WriteLog(st, file, entry, io_ok) ==
    IF io_ok
    THEN [st EXCEPT !.log_files[file] = Append(@, entry)]
    ELSE st

\* mutant: the score is assigned, not added to
log_attack_assign(st, req, attack_type, details, client_ip, t, io_ok) ==
    LET attack_entry ==
            [timestamp |-> t, client_ip |-> client_ip,
             attack_type |-> attack_type, method |-> req.method,
             url |-> <<req.path, req.query>>, details |-> details,
             threat_level |-> _calculate_threat_level(attack_type)]
        s1 == [st EXCEPT
                 !.attack_stats.total_attacks = @ + 1,
                 !.attack_stats.attack_types =
                     DictSet(@, attack_type, DictGet(@, attack_type, 0) + 1),
                 !.ip_threat_scores =
                     DictSet(@, client_ip,
                             _get_threat_score(attack_type)),
                 !.recent_attacks = DequeAppend(@, attack_entry)]
    IN  IF monitor_config.enable_detailed_logging
        THEN WriteLog(s1, "attacks", attack_entry, io_ok)
        ELSE s1

log_attack(st, req, attack_type, details, client_ip, t, io_ok) ==
    LET attack_entry ==
            [timestamp |-> t, client_ip |-> client_ip,
             attack_type |-> attack_type, method |-> req.method,
             url |-> <<req.path, req.query>>, details |-> details,
             threat_level |-> _calculate_threat_level(attack_type)]
        s1 == [st EXCEPT
                 !.attack_stats.total_attacks = @ + 1,
                 !.attack_stats.attack_types =
                     DictSet(@, attack_type, DictGet(@, attack_type, 0) + 1),
                 !.ip_threat_scores =
                     DictSet(@, client_ip,
                             DictGet(@, client_ip, 0)
                                 + _get_threat_score(attack_type)),
                 !.recent_attacks = DequeAppend(@, attack_entry)]
    IN  IF monitor_config.enable_detailed_logging
        THEN WriteLog(s1, "attacks", attack_entry, io_ok)
        ELSE s1

\* req is NoRequest when the caller passes no request
log_blocked_request(st, client_ip, reason, req, t, io_ok) ==
    LET blocked_entry ==
            [timestamp |-> t, client_ip |-> client_ip, reason |-> reason,
             method |-> IF req.present THEN req.method ELSE "UNKNOWN",
             url |-> IF req.present THEN <<req.path, req.query>>
                     ELSE "UNKNOWN",
             type |-> "BLOCKED"]
        s1 == [st EXCEPT !.attack_stats.blocked_requests = @ + 1]
    IN  IF monitor_config.enable_detailed_logging
        THEN WriteLog(s1, "blocked", blocked_entry, io_ok)
        ELSE s1

\* mutant: the counter is kept only when the line was written
log_suspicious_request_counted_on_write(st, client_ip, reason, req, t, io_ok) ==
    LET suspicious_entry ==
            [timestamp |-> t, client_ip |-> client_ip, reason |-> reason,
             method |-> req.method, url |-> <<req.path, req.query>>,
             type |-> "SUSPICIOUS"]
        s1 == [st EXCEPT !.attack_stats.suspicious_requests = @ + 1]
    IN  IF monitor_config.enable_detailed_logging
        THEN IF io_ok THEN WriteLog(s1, "suspicious", suspicious_entry, io_ok)
             ELSE st
        ELSE s1

log_suspicious_request(st, client_ip, reason, req, t, io_ok) ==
    LET suspicious_entry ==
            [timestamp |-> t, client_ip |-> client_ip, reason |-> reason,
             method |-> req.method, url |-> <<req.path, req.query>>,
             type |-> "SUSPICIOUS"]
        s1 == [st EXCEPT !.attack_stats.suspicious_requests = @ + 1]
    IN  IF monitor_config.enable_detailed_logging
        THEN WriteLog(s1, "suspicious", suspicious_entry, io_ok)
        ELSE s1

----------------------------------------------------------------------------
(* SecurityManager (app/security.py)                                       *)

\* the sliding window of check_rate_limit and count_suspicious_requests
RATE_WINDOW == 60

\* SecurityManager.config as set by __init__
DefaultConfig ==
    [max_requests_per_minute |-> 100,
     block_duration |-> 3600,
     suspicious_request_threshold |-> 5,
     enable_ip_blocking |-> TRUE,
     enable_rate_limiting |-> TRUE,
     enable_threat_detection |-> TRUE,
     log_suspicious_activity |-> TRUE]

\* the five headers get_client_ip tries, in order
ClientIpHeaders ==
    <<"x-real-ip", "x-forwarded-for", "x-forwarded", "forwarded-for", "fwd">>

\* A header value is the list of its comma-separated parts, each stripped;
\* a missing or empty header is the empty list.
get_client_ip(req) ==
    LET present == { i \in DOMAIN ClientIpHeaders :
                       DictGet(req.headers, ClientIpHeaders[i], << >>) # << >> }
    IN  IF present # {}
        THEN LET first == CHOOSE i \in present : \A j \in present : i <= j
             IN  req.headers[ClientIpHeaders[first]][1]
        ELSE IF req.client # None THEN req.client ELSE "unknown"

\* mutant: the block lasts one instant too long (<= instead of <)
is_ip_blocked_le(st, cfg, ip, t) ==
    IF ~cfg.enable_ip_blocking THEN [st |-> st, ret |-> FALSE]
    ELSE IF ip \in DOMAIN st.blocked_ips
    THEN IF t - st.blocked_ips[ip] <= cfg.block_duration
         THEN [st |-> st, ret |-> TRUE]
         ELSE [st |-> [st EXCEPT !.blocked_ips = DictDel(@, ip)],
               ret |-> FALSE]
    ELSE [st |-> st, ret |-> FALSE]

\* mutant: a lookup of a blocked IP restarts its block
is_ip_blocked_refresh(st, cfg, ip, t) ==
    IF ~cfg.enable_ip_blocking THEN [st |-> st, ret |-> FALSE]
    ELSE IF ip \in DOMAIN st.blocked_ips
    THEN IF t - st.blocked_ips[ip] < cfg.block_duration
         THEN [st |-> [st EXCEPT !.blocked_ips[ip] = t], ret |-> TRUE]
         ELSE [st |-> [st EXCEPT !.blocked_ips = DictDel(@, ip)],
               ret |-> FALSE]
    ELSE [st |-> st, ret |-> FALSE]

is_ip_blocked(st, cfg, ip, t) ==
    IF ~cfg.enable_ip_blocking THEN [st |-> st, ret |-> FALSE]
    ELSE IF ip \in DOMAIN st.blocked_ips
    THEN LET block_time == st.blocked_ips[ip]
         IN  IF t - block_time < cfg.block_duration
             THEN [st |-> st, ret |-> TRUE]
             ELSE [st |-> [st EXCEPT !.blocked_ips = DictDel(@, ip)],
                   ret |-> FALSE]
    ELSE [st |-> st, ret |-> FALSE]

\* mutant: the enable_ip_blocking test is missing
block_ip_ungated(st, cfg, ip, reason, t, io_ok) ==
    log_blocked_request(
        [st EXCEPT !.blocked_ips = DictSet(@, ip, t)],
        ip, reason, NoRequest, t, io_ok)

\* mutant: an IP already in the list keeps its old start time
block_ip_keep_start(st, cfg, ip, reason, t, io_ok) ==
    IF ~cfg.enable_ip_blocking THEN st
    ELSE log_blocked_request(
             [st EXCEPT !.blocked_ips =
                  IF ip \in DOMAIN @ THEN @ ELSE DictSet(@, ip, t)],
             ip, reason, NoRequest, t, io_ok)

block_ip(st, cfg, ip, reason, t, io_ok) ==
    IF ~cfg.enable_ip_blocking THEN st
    ELSE log_blocked_request(
             [st EXCEPT !.blocked_ips = DictSet(@, ip, t)],
             ip, reason, NoRequest, t, io_ok)

ReasonRateLimit == [text |-> "Rate limit exceeded"]

\* [req_time for req_time in request_counts[ip] if current_time - req_time < 60]
RecentRequests(times, current_time) ==
    SelectSeq(times, LAMBDA req_time : current_time - req_time < RATE_WINDOW)

\* mutant: the timestamp of a denied request is recorded too
check_rate_limit_append_denied(st, cfg, ip, t, io_ok) ==
    IF ~cfg.enable_rate_limiting THEN [st |-> st, ret |-> TRUE]
    ELSE
      LET pruned == RecentRequests(DictGet(st.request_counts, ip, << >>), t)
          s1 == [st EXCEPT !.request_counts = DictSet(@, ip, Append(pruned, t))]
      IN  IF Len(pruned) >= cfg.max_requests_per_minute
          THEN [st |-> block_ip(s1, cfg, ip, ReasonRateLimit, t, io_ok),
                ret |-> FALSE]
          ELSE [st |-> s1, ret |-> TRUE]

\* mutant: the limit is compared with > instead of >=
check_rate_limit_gt(st, cfg, ip, t, io_ok) ==
    IF ~cfg.enable_rate_limiting THEN [st |-> st, ret |-> TRUE]
    ELSE
      LET pruned == RecentRequests(DictGet(st.request_counts, ip, << >>), t)
          s1 == [st EXCEPT !.request_counts = DictSet(@, ip, pruned)]
      IN  IF Len(pruned) > cfg.max_requests_per_minute
          THEN [st |-> block_ip(s1, cfg, ip, ReasonRateLimit, t, io_ok),
                ret |-> FALSE]
          ELSE [st |-> [s1 EXCEPT !.request_counts[ip] = Append(@, t)],
                ret |-> TRUE]

\* mutant: the window is kept although enable_rate_limiting is off
check_rate_limit_flag_ignored(st, cfg, ip, t, io_ok) ==
    LET pruned == RecentRequests(DictGet(st.request_counts, ip, << >>), t)
        s1 == [st EXCEPT !.request_counts = DictSet(@, ip, pruned)]
    IN  IF Len(pruned) >= cfg.max_requests_per_minute
        THEN [st |-> block_ip(s1, cfg, ip, ReasonRateLimit, t, io_ok),
              ret |-> FALSE]
        ELSE [st |-> [s1 EXCEPT !.request_counts[ip] = Append(@, t)],
              ret |-> TRUE]

check_rate_limit(st, cfg, ip, t, io_ok) ==
    IF ~cfg.enable_rate_limiting THEN [st |-> st, ret |-> TRUE]
    ELSE
      LET pruned == RecentRequests(DictGet(st.request_counts, ip, << >>), t)
          s1 == [st EXCEPT !.request_counts = DictSet(@, ip, pruned)]
      IN  IF Len(pruned) >= cfg.max_requests_per_minute
          THEN [st |-> block_ip(s1, cfg, ip, ReasonRateLimit, t, io_ok),
                ret |-> FALSE]
          ELSE [st |-> [s1 EXCEPT !.request_counts[ip] = Append(@, t)],
                ret |-> TRUE]

\* mutant: the recent requests of every IP are counted
count_suspicious_requests_all_ips(st, ip, t) ==
    LET times == DictGet(st.request_counts, ip, << >>)
        s1 == [st EXCEPT !.request_counts = DictSet(@, ip, times)]
        recent == [k \in DOMAIN s1.request_counts |->
                      RecentRequests(s1.request_counts[k], t)]
    IN  [st |-> s1,
         ret |-> Cardinality(UNION { { <<k, i>> : i \in DOMAIN recent[k] } :
                                       k \in DOMAIN recent })]

\* reading request_counts[ip] of the defaultdict creates the key
count_suspicious_requests(st, ip, t) ==
    LET times == DictGet(st.request_counts, ip, << >>)
    IN  [st |-> [st EXCEPT !.request_counts = DictSet(@, ip, times)],
         ret |-> Len(RecentRequests(times, t))]

\* the reason None of an allowed request
NoReason == [text |-> None]
ReasonBlocked == [text |-> "IP is blocked"]
\* f"Multiple suspicious requests: {reason}"
ReasonMultiple(reason) ==
    [text |-> "Multiple suspicious requests", group |-> reason.group,
     patterns |-> reason.patterns]

\* mutant: the threshold is compared with > instead of >=
analyze_request_gt(st, cfg, req, t, io_ok) ==
    LET client_ip == get_client_ip(req)
        b == is_ip_blocked(st, cfg, client_ip, t)
    IN  IF b.ret
        THEN [st |-> b.st, should_block |-> TRUE, reason |-> ReasonBlocked]
        ELSE
          LET r == check_rate_limit(b.st, cfg, client_ip, t, io_ok)
          IN  IF ~r.ret
              THEN [st |-> r.st, should_block |-> TRUE,
                    reason |-> ReasonRateLimit]
              ELSE
                LET s == is_suspicious_request(cfg, req)
                    reason == [group |-> s.group, patterns |-> s.patterns]
                IN  IF s.suspicious
                    THEN
                      LET s1 == IF cfg.log_suspicious_activity
                                THEN log_suspicious_request(
                                         r.st, client_ip, reason, req, t, io_ok)
                                ELSE r.st
                          c == count_suspicious_requests(s1, client_ip, t)
                      IN  IF c.ret > cfg.suspicious_request_threshold
                          THEN [st |-> log_attack(
                                    block_ip(c.st, cfg, client_ip,
                                             ReasonMultiple(reason), t, io_ok),
                                    req, "scanning", reason, client_ip, t,
                                    io_ok),
                                should_block |-> TRUE,
                                reason |-> ReasonMultiple(reason)]
                          ELSE [st |-> c.st, should_block |-> FALSE,
                                reason |-> NoReason]
                    ELSE [st |-> r.st, should_block |-> FALSE,
                          reason |-> NoReason]

analyze_request(st, cfg, req, t, io_ok) ==
    LET client_ip == get_client_ip(req)
        b == is_ip_blocked(st, cfg, client_ip, t)
    IN  IF b.ret
        THEN [st |-> b.st, should_block |-> TRUE, reason |-> ReasonBlocked]
        ELSE
          LET r == check_rate_limit(b.st, cfg, client_ip, t, io_ok)
          IN  IF ~r.ret
              THEN [st |-> r.st, should_block |-> TRUE,
                    reason |-> ReasonRateLimit]
              ELSE
                LET s == is_suspicious_request(cfg, req)
                    reason == [group |-> s.group, patterns |-> s.patterns]
                IN  IF s.suspicious
                    THEN
                      LET s1 == IF cfg.log_suspicious_activity
                                THEN log_suspicious_request(
                                         r.st, client_ip, reason, req, t, io_ok)
                                ELSE r.st
                          c == count_suspicious_requests(s1, client_ip, t)
                      IN  IF c.ret >= cfg.suspicious_request_threshold
                          THEN [st |-> log_attack(
                                    block_ip(c.st, cfg, client_ip,
                                             ReasonMultiple(reason), t, io_ok),
                                    req, "scanning", reason, client_ip, t,
                                    io_ok),
                                should_block |-> TRUE,
                                reason |-> ReasonMultiple(reason)]
                          ELSE [st |-> c.st, should_block |-> FALSE,
                                reason |-> NoReason]
                    ELSE [st |-> r.st, should_block |-> FALSE,
                          reason |-> NoReason]

RECURSIVE SumLens(_, _)
\* sum(len(requests) for requests in request_counts.values())
SumLens(d, keys) ==
    IF keys = {} THEN 0
    ELSE LET k == CHOOSE x \in keys : TRUE
         IN  Len(d[k]) + SumLens(d, keys \ {k})

\* int(x): truncation toward zero of x, a time in ticks, to whole seconds
PyIntSeconds(x, ticks) ==
    IF x >= 0 THEN x \div ticks ELSE -((-x) \div ticks)

\* mutant: an entry is listed until its block has run out, inclusive
get_security_stats_in_le(st, cfg, t, ticks) ==
    LET active == { ip \in DOMAIN st.blocked_ips :
                      t - st.blocked_ips[ip] <= cfg.block_duration * ticks }
        active_blocks ==
            [ip \in active |->
                PyIntSeconds(cfg.block_duration * ticks
                               - (t - st.blocked_ips[ip]), ticks)]
    IN  [blocked_ips_count |-> Cardinality(DOMAIN active_blocks),
         active_blocks |-> active_blocks,
         total_requests_tracked |->
             SumLens(st.request_counts, DOMAIN st.request_counts),
         unique_ips_tracked |-> Cardinality(DOMAIN st.request_counts),
         config |-> cfg]

\* get_security_stats with the clock and the start times counted in ticks
\* of 1/ticks second; block_duration is in seconds
get_security_stats_in(st, cfg, t, ticks) ==
    LET active == { ip \in DOMAIN st.blocked_ips :
                      t - st.blocked_ips[ip] < cfg.block_duration * ticks }
        active_blocks ==
            [ip \in active |->
                PyIntSeconds(cfg.block_duration * ticks
                               - (t - st.blocked_ips[ip]), ticks)]
    IN  [blocked_ips_count |-> Cardinality(DOMAIN active_blocks),
         active_blocks |-> active_blocks,
         total_requests_tracked |->
             SumLens(st.request_counts, DOMAIN st.request_counts),
         unique_ips_tracked |-> Cardinality(DOMAIN st.request_counts),
         config |-> cfg]

\* on a clock of whole seconds
get_security_stats(st, cfg, t) == get_security_stats_in(st, cfg, t, 1)

\* raise HTTPException(status_code=403, detail="Access denied")
AccessDenied == [status |-> 403, detail |-> "Access denied"]
\* the response of call_next(request): produced by the routed handler
CallNext == [status |-> 0, detail |-> "call_next"]

\* mutant: the 403 carries the reason of the decision
security_middleware_leak(st, cfg, req, t, io_ok) ==
    LET a == analyze_request(st, cfg, req, t, io_ok)
    IN  IF a.should_block
        THEN [st |-> log_blocked_request(
                         a.st, get_client_ip(req), a.reason, req, t, io_ok),
              should_block |-> TRUE, reason |-> a.reason,
              response |-> [status |-> 403, detail |-> a.reason.text]]
        ELSE [st |-> a.st, should_block |-> FALSE, reason |-> a.reason,
              response |-> CallNext]

security_middleware(st, cfg, req, t, io_ok) ==
    LET a == analyze_request(st, cfg, req, t, io_ok)
    IN  IF a.should_block
        THEN [st |-> log_blocked_request(
                         a.st, get_client_ip(req),
                         IF a.reason # NoReason THEN a.reason
                         ELSE [text |-> "Unknown threat"],
                         req, t, io_ok),
              should_block |-> TRUE, reason |-> a.reason,
              response |-> AccessDenied]
        ELSE [st |-> a.st, should_block |-> FALSE, reason |-> a.reason,
              response |-> CallNext]

----------------------------------------------------------------------------
(* The request pipeline: every request goes through security_middleware.   *)
(* A request is handled at one reading of the clock: the handler is         *)
(* synchronous and makes no I/O between its calls of time.time().           *)

\* bounds of the model
MaxM == 2          \* max_requests_per_minute ranges over 1..MaxM
MaxK == 2          \* suspicious_request_threshold ranges over 1..MaxK
MaxReq == 3        \* requests handled in one behaviour
TimeStep == 30     \* seconds the clock advances in one Tick
MaxTime == 60      \* the clock stops here

IPs == {"a", "b"}

BlockDurations == {TimeStep, 2 * TimeStep}

\* the configurations the pipeline is run under: the defaults of __init__
\* with the three numbers scaled to the bounds
SecConfigs ==
    { [DefaultConfig EXCEPT !.max_requests_per_minute = m,
                            !.suspicious_request_threshold = k,
                            !.block_duration = d] :
        m \in 1..MaxM, k \in 1..MaxK, d \in BlockDurations }

Request(method, path, query, headers, client) ==
    [present |-> TRUE, method |-> method, path |-> path, query |-> query,
     headers |-> headers, client |-> client]

PathHealth == <<"/", "h", "e", "a", "l", "t", "h">>
PathGitConfig == <<"/", ".", "g", "i", "t", "/", "c", "o", "n", "f", "i", "g">>
PathSearch == <<"/", "s", "e", "a", "r", "c", "h">>
QueryCmd == << <<(<<"c", "m", "d">>), (<<"l", "s">>)>> >>

\* the requests of the pipeline: a plain one and one with a suspicious path
\* from each peer address, one with a suspicious parameter from "a", and a
\* plain one that a proxy at "a" forwards for "b"
SecRequests ==
    { Request("GET", PathHealth, << >>, EmptyDict, ip) : ip \in IPs } \cup
    { Request("GET", PathGitConfig, << >>, EmptyDict, ip) : ip \in IPs } \cup
    { Request("GET", PathSearch, QueryCmd, EmptyDict, "a") } \cup
    { Request("GET", PathHealth, << >>,
              [h \in {"x-forwarded-for"} |-> <<"b", "a">>], "a") }

InitState ==
    [blocked_ips |-> EmptyDict, request_counts |-> EmptyDict,
     attack_stats |-> InitAttackStats, recent_attacks |-> << >>,
     ip_threat_scores |-> EmptyDict, log_files |-> InitLogFiles]

\* the state of security_manager and attack_monitor as one record
State ==
    [blocked_ips |-> blocked_ips, request_counts |-> request_counts,
     attack_stats |-> attack_stats, recent_attacks |-> recent_attacks,
     ip_threat_scores |-> ip_threat_scores, log_files |-> log_files]

SetState(st) ==
    /\ blocked_ips' = st.blocked_ips
    /\ request_counts' = st.request_counts
    /\ attack_stats' = st.attack_stats
    /\ recent_attacks' = st.recent_attacks
    /\ ip_threat_scores' = st.ip_threat_scores
    /\ log_files' = st.log_files

\* what a trace entry keeps of the state before and after a request
Snapshot(st) ==
    [blocked_ips |-> st.blocked_ips, request_counts |-> st.request_counts,
     attack_stats |-> st.attack_stats, recent_attacks |-> st.recent_attacks,
     ip_threat_scores |-> st.ip_threat_scores]

NoResponse == [status |-> 0, detail |-> "none"]
NoClassified == [done |-> FALSE]

Init ==
    /\ config \in SecConfigs
    /\ now = 0
    /\ blocked_ips = InitState.blocked_ips
    /\ request_counts = InitState.request_counts
    /\ attack_stats = InitState.attack_stats
    /\ recent_attacks = InitState.recent_attacks
    /\ ip_threat_scores = InitState.ip_threat_scores
    /\ log_files = InitState.log_files
    /\ response = NoResponse
    /\ trace = << >>
    /\ classified = NoClassified
    /\ static_files = EmptyDict
    /\ client_cache = EmptyDict

Tick ==
    /\ now + TimeStep <= MaxTime
    /\ now' = now + TimeStep
    /\ UNCHANGED srvVars
    /\ UNCHANGED <<config, blocked_ips, request_counts, response, trace,
                   monVars, classified>>

HandleRequest(req) ==
    /\ Len(trace) < MaxReq
    /\ \E r \in {security_middleware(State, config, req, now, TRUE)} :
           /\ SetState(r.st)
           /\ response' = r.response
           /\ trace' = Append(trace,
                  [ip |-> get_client_ip(req), t |-> now, req |-> req,
                   matches |-> is_suspicious_request(config, req).suspicious,
                   pre |-> Snapshot(State), post |-> Snapshot(r.st),
                   should_block |-> r.should_block, reason |-> r.reason,
                   response |-> r.response])
    /\ UNCHANGED <<config, now, classified, srvVars>>

Next ==
    \/ Tick
    \/ \E req \in SecRequests : HandleRequest(req)

Spec == Init /\ [][Next]_vars

----------------------------------------------------------------------------
(* Properties of the pipeline, stated over the trace *)

\* the requests of the IP of entry i from entry i on, and the position of
\* entry j among them
After(i) == { j \in i..Len(trace) : trace[j].ip = trace[i].ip }
Rank(i, j) == Cardinality({ k \in After(i) : k <= j })

\* the IP of entry i had no active block and no recorded timestamp when the
\* request of entry i arrived
Fresh(i) ==
    LET e == trace[i]
    IN  /\ ~(/\ e.ip \in DOMAIN e.pre.blocked_ips
             /\ e.t - e.pre.blocked_ips[e.ip] < config.block_duration)
        /\ DictGet(e.pre.request_counts, e.ip, << >>) = << >>

\* entries i..j of one IP: all match the catalog (or none does), and entry j
\* is less than 60 seconds after entry i
RunOf(i, j, suspicious) ==
    /\ j \in After(i)
    /\ \A k \in After(i) : k <= j => trace[k].matches = suspicious
    /\ trace[j].t - trace[i].t < RATE_WINDOW

InActiveBlocks(e) ==
    e.ip \in DOMAIN get_security_stats(e.post, config, e.t).active_blocks

\* C1: an IP that is not blocked and has no recorded timestamps sends
\* non-suspicious requests less than 60 seconds apart: requests 1..M are
\* allowed, request M+1 is denied with reason "Rate limit exceeded" and then
\* the IP is in active_blocks (M = max_requests_per_minute).
C1_RateLimit ==
    \A i \in DOMAIN trace : \A j \in DOMAIN trace :
        (Fresh(i) /\ RunOf(i, j, FALSE)) =>
            LET n == Rank(i, j)
                M == config.max_requests_per_minute
                e == trace[j]
            IN  /\ n <= M => /\ ~e.should_block
                             /\ e.response = CallNext
                /\ n = M + 1 => /\ e.should_block
                                /\ e.reason = ReasonRateLimit
                                /\ e.response.status = 403
                                /\ InActiveBlocks(e)

C1_Witness ==
    \E i \in DOMAIN trace : \E j \in DOMAIN trace :
        /\ Fresh(i) /\ RunOf(i, j, FALSE)
        /\ Rank(i, j) = config.max_requests_per_minute + 1
        /\ config.max_requests_per_minute = MaxM
        /\ trace[j].reason = ReasonRateLimit

\* the last entry of the attack history after entry e is a new "scanning"
\* event of the IP, and it is the only one the request added
OneScanningEvent(e) ==
    /\ e.post.attack_stats.total_attacks = e.pre.attack_stats.total_attacks + 1
    /\ Len(e.post.recent_attacks) = Len(e.pre.recent_attacks) + 1
    /\ SubSeq(e.post.recent_attacks, 1, Len(e.pre.recent_attacks))
           = e.pre.recent_attacks
    /\ LET a == e.post.recent_attacks[Len(e.post.recent_attacks)]
       IN  a.attack_type = "scanning" /\ a.client_ip = e.ip

SuspiciousLogged(e) ==
    e.post.attack_stats.suspicious_requests
        = e.pre.attack_stats.suspicious_requests + 1

\* what C3 says of entry j, the n-th request of a run of catalog matches
ThresholdBehaviour(i, j) ==
    LET n == Rank(i, j)
        K == config.suspicious_request_threshold
        e == trace[j]
    IN  /\ n < K => /\ ~e.should_block
                    /\ SuspiciousLogged(e)
                    /\ e.post.attack_stats.total_attacks
                           = e.pre.attack_stats.total_attacks
        /\ n = K => /\ e.should_block
                    /\ e.reason.text = "Multiple suspicious requests"
                    /\ e.response.status = 403
                    /\ InActiveBlocks(e)
                    /\ OneScanningEvent(e)

\* C3 as stated: an IP with no block and no timestamps sends only requests
\* that match the catalog, less than 60 seconds apart: requests 1..K-1 are
\* allowed and logged as suspicious, request K is blocked, the IP is put on
\* the block list and one "scanning" attack is recorded
\* (K = suspicious_request_threshold).
C3_Original ==
    \A i \in DOMAIN trace : \A j \in DOMAIN trace :
        (Fresh(i) /\ RunOf(i, j, TRUE)) => ThresholdBehaviour(i, j)

\* C3 amended: the same, for K <= max_requests_per_minute.
C3_SuspiciousThreshold ==
    \A i \in DOMAIN trace : \A j \in DOMAIN trace :
        (/\ Fresh(i) /\ RunOf(i, j, TRUE)
         /\ config.suspicious_request_threshold
                <= config.max_requests_per_minute)
            => ThresholdBehaviour(i, j)

C3_Witness ==
    \E i \in DOMAIN trace : \E j \in DOMAIN trace :
        /\ Fresh(i) /\ RunOf(i, j, TRUE)
        /\ config.suspicious_request_threshold = MaxK
        /\ config.max_requests_per_minute >= MaxK
        /\ Rank(i, j) = MaxK
        /\ trace[j].should_block
        /\ \E k \in After(i) : k < j /\ ~trace[k].should_block

ActiveBlockBefore(e) ==
    /\ e.ip \in DOMAIN e.pre.blocked_ips
    /\ e.t - e.pre.blocked_ips[e.ip] < config.block_duration

\* C4: a request from an IP whose block is active is decided BLOCK with
\* reason "IP is blocked", and the timestamps, the block start times, the
\* suspicious_requests and total_attacks counters, the attack history and
\* the threat scores are as before the request.
C4_BlockedFrame ==
    \A i \in DOMAIN trace :
        LET e == trace[i]
        IN  ActiveBlockBefore(e) =>
              /\ e.should_block
              /\ e.reason = ReasonBlocked
              /\ e.post.request_counts = e.pre.request_counts
              /\ e.post.blocked_ips = e.pre.blocked_ips
              /\ e.post.attack_stats.suspicious_requests
                     = e.pre.attack_stats.suspicious_requests
              /\ e.post.attack_stats.total_attacks
                     = e.pre.attack_stats.total_attacks
              /\ e.post.recent_attacks = e.pre.recent_attacks
              /\ e.post.ip_threat_scores = e.pre.ip_threat_scores

\* a blocked IP sent a request with a suspicious path and one with a
\* suspicious parameter, the first of them later than the block began
C4_Witness ==
    \E i \in DOMAIN trace : \E j \in DOMAIN trace :
        /\ ActiveBlockBefore(trace[i]) /\ ActiveBlockBefore(trace[j])
        /\ trace[i].req.path = PathGitConfig
        /\ trace[i].t > trace[i].pre.blocked_ips[trace[i].ip]
        /\ trace[j].req.query = QueryCmd

----------------------------------------------------------------------------
(* The block list on its own: block_ip and is_ip_blocked called directly,  *)
(* with IP blocking enabled or disabled.  The trace keeps one entry per    *)
(* call.                                                                   *)

MaxOps == 4        \* calls made in one behaviour

BlockConfigs ==
    { [DefaultConfig EXCEPT !.block_duration = d, !.enable_ip_blocking = b] :
        d \in BlockDurations, b \in BOOLEAN }

ReasonDefault == [text |-> "Suspicious activity"]

InitBlock ==
    /\ config \in BlockConfigs
    /\ now = 0
    /\ blocked_ips = InitState.blocked_ips
    /\ request_counts = InitState.request_counts
    /\ attack_stats = InitState.attack_stats
    /\ recent_attacks = InitState.recent_attacks
    /\ ip_threat_scores = InitState.ip_threat_scores
    /\ log_files = InitState.log_files
    /\ response = NoResponse
    /\ trace = << >>
    /\ classified = NoClassified
    /\ static_files = EmptyDict
    /\ client_cache = EmptyDict

BlockIp(ip) ==
    /\ Len(trace) < MaxOps
    /\ \E st \in {block_ip(State, config, ip, ReasonDefault, now, TRUE)} :
           /\ SetState(st)
           /\ trace' = Append(trace,
                  [op |-> "block_ip", ip |-> ip, t |-> now, ret |-> FALSE,
                   pre |-> Snapshot(State), post |-> Snapshot(st)])
    /\ UNCHANGED <<config, now, response, classified, srvVars>>

IsIpBlocked(ip) ==
    /\ Len(trace) < MaxOps
    /\ \E r \in {is_ip_blocked(State, config, ip, now)} :
           /\ SetState(r.st)
           /\ trace' = Append(trace,
                  [op |-> "is_ip_blocked", ip |-> ip, t |-> now,
                   ret |-> r.ret,
                   pre |-> Snapshot(State), post |-> Snapshot(r.st)])
    /\ UNCHANGED <<config, now, response, classified, srvVars>>

NextBlock ==
    \/ Tick
    \/ \E ip \in IPs : BlockIp(ip)
    \/ \E ip \in IPs : IsIpBlocked(ip)

SpecBlock == InitBlock /\ [][NextBlock]_vars

\* entry i is the last block_ip call for the IP of entry j before entry j
LastBlockBefore(i, j) ==
    /\ i < j
    /\ trace[i].op = "block_ip"
    /\ trace[i].ip = trace[j].ip
    /\ \A k \in (i + 1)..(j - 1) :
           ~(trace[k].op = "block_ip" /\ trace[k].ip = trace[j].ip)

\* C2: with IP blocking enabled, an IP blocked at time T and not blocked
\* again is reported blocked by every is_ip_blocked call at a time t with
\* t - T < block_duration, and by no call with t - T >= block_duration, and
\* after such a call the IP is not in blocked_ips.
C2_BlockExpiry ==
    \A i \in DOMAIN trace : \A j \in DOMAIN trace :
        (/\ config.enable_ip_blocking
         /\ trace[j].op = "is_ip_blocked"
         /\ LastBlockBefore(i, j)) =>
            LET T == trace[i].t
                e == trace[j]
            IN  IF e.t - T < config.block_duration
                THEN e.ret
                ELSE ~e.ret /\ e.ip \notin DOMAIN e.post.blocked_ips

\* one IP was found blocked just before its block ran out, and unblocked
\* at the moment it ran out
C2_Witness ==
    \E i \in DOMAIN trace : \E j \in DOMAIN trace : \E k \in DOMAIN trace :
        /\ config.enable_ip_blocking
        /\ config.block_duration = 2 * TimeStep
        /\ trace[j].op = "is_ip_blocked" /\ LastBlockBefore(i, j)
        /\ trace[k].op = "is_ip_blocked" /\ LastBlockBefore(i, k)
        /\ trace[j].t - trace[i].t = TimeStep /\ trace[j].ret
        /\ trace[k].t - trace[i].t = config.block_duration /\ ~trace[k].ret

\* C14: with IP blocking enabled, block_ip(ip) at time T2 leaves the block
\* list with ip mapped to T2 and every other entry as it was; a later
\* is_ip_blocked(ip) call with no block_ip in between answers true exactly
\* while t < T2 + block_duration, whatever the earlier start time was; and
\* a second block_ip(ip) at the same time leaves the block list as the
\* first one left it.
C14_ReblockResetsTimer ==
    \A j \in DOMAIN trace :
        (config.enable_ip_blocking /\ trace[j].op = "block_ip") =>
            LET e == trace[j]
            IN  /\ DOMAIN e.post.blocked_ips
                       = DOMAIN e.pre.blocked_ips \cup {e.ip}
                /\ e.post.blocked_ips[e.ip] = e.t
                /\ \A other \in DOMAIN e.pre.blocked_ips \ {e.ip} :
                       e.post.blocked_ips[other] = e.pre.blocked_ips[other]
                /\ \A k \in DOMAIN trace :
                       (trace[k].op = "is_ip_blocked" /\ LastBlockBefore(j, k))
                           => (trace[k].ret
                                 <=> trace[k].t < e.t + config.block_duration)
                /\ (/\ j > 1
                    /\ trace[j - 1].op = "block_ip"
                    /\ trace[j - 1].ip = e.ip
                    /\ trace[j - 1].t = e.t)
                       => e.post.blocked_ips = trace[j - 1].post.blocked_ips

\* an IP blocked at 0 and again at TimeStep is still blocked when the
\* first block would have run out
C14_Witness ==
    \E i, j, k \in DOMAIN trace :
        /\ config.enable_ip_blocking
        /\ i < j /\ j < k
        /\ trace[i].op = "block_ip" /\ trace[j].op = "block_ip"
        /\ trace[i].ip = trace[j].ip
        /\ trace[i].t < trace[j].t
        /\ trace[i].ip \in DOMAIN trace[j].pre.blocked_ips
        /\ trace[k].op = "is_ip_blocked" /\ LastBlockBefore(j, k)
        /\ trace[k].t - trace[i].t >= config.block_duration
        /\ trace[k].ret

\* block_ip was called twice in a row for one IP at one time
C14_WitnessTwice ==
    \E j \in DOMAIN trace :
        /\ config.enable_ip_blocking
        /\ j > 1
        /\ trace[j].op = "block_ip" /\ trace[j - 1].op = "block_ip"
        /\ trace[j].ip = trace[j - 1].ip /\ trace[j].t = trace[j - 1].t

----------------------------------------------------------------------------
(* is_suspicious_request on its own: the request is drawn from the paths   *)
(* and query parameters below, threat detection is on or off, and Classify *)
(* applies the function.                                                   *)

PathEnv == <<"/", ".", "e", "n", "v">>
PathFooBak == <<"/", "f", "o", "o", ".", "b", "a", "k">>
PathAdminConfigPhp == <<"/", "a", "d", "m", "i", "n", "/", "c", "o", "n", "f", "i", "g", ".", "p", "h", "p">>
PathGitHead == <<"/", ".", "g", "i", "t", "/", "H", "E", "A", "D">>
PathGitConfigUpper == <<"/", ".", "G", "I", "T", "/", "C", "o", "n", "f", "i", "g">>
PathIndexHtml == <<"/", "i", "n", "d", "e", "x", ".", "h", "t", "m", "l">>
PathTraversal == <<"/", "a", "/", ".", ".", "/", "b">>
PathApiUsers == <<"/", "a", "p", "i", "/", "u", "s", "e", "r", "s">>
PathNotesTxt == <<"/", "N", "O", "T", "E", "S", ".", "T", "X", "T">>
PathDsStore == <<"/", ".", "D", "S", "_", "S", "t", "o", "r", "e">>

PatternPaths ==
    { PathHealth, PathGitConfig, PathSearch,
      PathEnv, PathFooBak, PathAdminConfigPhp,
      PathGitHead, PathGitConfigUpper, PathIndexHtml,
      PathTraversal, PathApiUsers, PathNotesTxt,
      PathDsStore }

QueryId ==
    << <<<<"i", "d">>, <<"1">>>> >>
QueryUnionSelect ==
    << <<<<"q">>, <<"u", "n", "i", "o", "n", " ", "s", "e", "l", "e", "c", "t">>>> >>
QueryDropTable ==
    << <<<<"i", "d">>, <<"1">>>>,
       <<<<"q">>, <<"x", ";", " ", "D", "R", "O", "P", " ", "T", "A", "B", "L", "E", " ", "t">>>> >>
QueryPage ==
    << <<<<"p", "a", "g", "e">>, <<"2">>>> >>

PatternQueries ==
    { << >>, QueryCmd, QueryId, QueryUnionSelect, QueryDropTable, QueryPage }

InitPattern ==
    /\ config \in { [DefaultConfig EXCEPT !.enable_threat_detection = b] :
                       b \in BOOLEAN }
    /\ now = 0
    /\ blocked_ips = InitState.blocked_ips
    /\ request_counts = InitState.request_counts
    /\ attack_stats = InitState.attack_stats
    /\ recent_attacks = InitState.recent_attacks
    /\ ip_threat_scores = InitState.ip_threat_scores
    /\ log_files = InitState.log_files
    /\ response = NoResponse
    /\ trace = << >>
    /\ classified \in
           { [done |-> FALSE,
              req |-> Request("GET", p, qp, EmptyDict, "a"),
              result |-> NotSuspicious] :
               p \in PatternPaths, qp \in PatternQueries }
    /\ static_files = EmptyDict
    /\ client_cache = EmptyDict

Classify ==
    /\ ~classified.done
    /\ classified' =
           [classified EXCEPT
              !.done = TRUE,
              !.result = is_suspicious_request(config, classified.req)]
    /\ UNCHANGED <<secVars, monVars, srvVars>>

NextPattern == Classify

SpecPattern == InitPattern /\ [][NextPattern]_vars

\* the lower-cased path and query string the rules of the catalog look at
ClassifiedPath == Lower(classified.req.path)
ClassifiedQuery == Lower(QueryString(classified.req.query))

HitsPath == \E p \in SuspiciousPaths : Contains(ClassifiedPath, p)
HitsExtension == \E e \in SuspiciousExtensions : EndsWith(ClassifiedPath, e)
HitsParam == \E p \in SuspiciousParams : Contains(ClassifiedQuery, p)
HitsTraversal == Contains(ClassifiedPath, <<".", ".">>)
HitsSql == \E p \in SqlPatterns : Contains(ClassifiedQuery, p)

\* C7: with threat detection on, the reason is that of the first rule group
\* that matches, in the order paths, extensions, parameters, directory
\* traversal, SQL keywords, and the request is not suspicious when none
\* matches; /.env, which matches a path entry and an extension, is reported
\* as a path pattern, and /foo.bak, which matches only an extension, as a
\* file extension.
C7_PatternPrecedence ==
    (classified.done /\ config.enable_threat_detection) =>
        LET r == classified.result
        IN  /\ r.suspicious = (HitsPath \/ HitsExtension \/ HitsParam
                                  \/ HitsTraversal \/ HitsSql)
            /\ r.suspicious =>
                  r.group =
                    IF HitsPath THEN "Suspicious path pattern"
                    ELSE IF HitsExtension THEN "Suspicious file extension"
                    ELSE IF HitsParam THEN "Suspicious parameter"
                    ELSE IF HitsTraversal THEN "Directory traversal attempt"
                    ELSE "SQL injection pattern"
            /\ classified.req.path = PathEnv =>
                  r.group = "Suspicious path pattern"
            /\ classified.req.path = PathFooBak =>
                  r.group = "Suspicious file extension"

\* a request that matches a path entry, an extension and a parameter was
\* classified
C7_Witness ==
    /\ classified.done /\ config.enable_threat_detection
    /\ HitsPath /\ HitsExtension /\ HitsParam
    /\ classified.result.group = G_PATH


----------------------------------------------------------------------------
(* AttackMonitor.log_attack called directly: any client, any attack type.  *)

MaxAttacks == 3

\* the ten types _calculate_threat_level names, and one it does not
AttackTypes == HighThreat \cup MediumThreat \cup LowThreat \cup {"zero_day"}

\* the request handed to log_attack
AttackRequest(ip) == Request("GET", PathSearch, << >>, EmptyDict, ip)

InitMonitor ==
    /\ config = DefaultConfig
    /\ now = 0
    /\ blocked_ips = InitState.blocked_ips
    /\ request_counts = InitState.request_counts
    /\ attack_stats = InitState.attack_stats
    /\ recent_attacks = InitState.recent_attacks
    /\ ip_threat_scores = InitState.ip_threat_scores
    /\ log_files = InitState.log_files
    /\ response = NoResponse
    /\ trace = << >>
    /\ classified = NoClassified
    /\ static_files = EmptyDict
    /\ client_cache = EmptyDict

LogAttack(ip, attack_type) ==
    /\ Len(trace) < MaxAttacks
    /\ \E st \in {log_attack(State, AttackRequest(ip), attack_type,
                             "details", ip, now, TRUE)} :
           /\ SetState(st)
           /\ trace' = Append(trace,
                  [ip |-> ip, attack_type |-> attack_type, t |-> now,
                   pre |-> ip_threat_scores, post |-> st.ip_threat_scores])
    /\ now' = now + 1
    /\ UNCHANGED <<config, response, classified, srvVars>>

NextMonitor == \E ip \in IPs, attack_type \in AttackTypes : LogAttack(ip, attack_type)

SpecMonitor == InitMonitor /\ [][NextMonitor]_vars

\* the score the claim gives to an attack type
LevelScore(attack_type) ==
    IF attack_type \in {"sql_injection", "rce", "path_traversal",
                        "file_inclusion"} THEN 5
    ELSE IF attack_type \in {"xss_attacks", "directory_traversal", "csrf"}
    THEN 3
    ELSE IF attack_type \in {"scanning", "probing", "information_gathering"}
    THEN 1
    ELSE 2

\* C8: each log_attack(ip, type) raises the score of ip by the score of the
\* type's level (HIGH 5, MEDIUM 3, LOW 1, UNKNOWN 2) and leaves the score of
\* every other IP as it was; N sql_injection attacks of one IP, and nothing
\* else, leave its score at 5*N.
C8_ThreatScore ==
    /\ \A i \in DOMAIN trace :
          LET e == trace[i]
          IN  /\ e.ip \in DOMAIN e.post
              /\ e.post[e.ip] = DictGet(e.pre, e.ip, 0) + LevelScore(e.attack_type)
              /\ DOMAIN e.post = DOMAIN e.pre \cup {e.ip}
              /\ \A o \in DOMAIN e.post \ {e.ip} : e.post[o] = e.pre[o]
    /\ \A ip \in IPs :
          (/\ trace # << >>
           /\ \A i \in DOMAIN trace :
                 trace[i].ip = ip /\ trace[i].attack_type = "sql_injection")
              => ip_threat_scores[ip] = 5 * Len(trace)

\* MaxAttacks sql_injection attacks of one IP after which the other IP has
\* no score, and a run in which both IPs have a score
C8_Witness ==
    /\ Len(trace) = MaxAttacks
    /\ \A i \in DOMAIN trace :
          trace[i].ip = "a" /\ trace[i].attack_type = "sql_injection"
    /\ ip_threat_scores["a"] = 5 * MaxAttacks
    /\ "b" \notin DOMAIN ip_threat_scores

----------------------------------------------------------------------------
(* The in-memory history: a long run of log_attack calls, one per clock    *)
(* tick, the clients and attack types taking turns.                        *)

MaxEvents == 1500

\* the client and the type of the n-th call
EventIp(n) == IF n % 2 = 1 THEN "a" ELSE "b"
EventType(n) ==
    IF n % 3 = 0 THEN "sql_injection"
    ELSE IF n % 3 = 1 THEN "scanning" ELSE "xss_attacks"

InitHistory == InitMonitor

RecordEvent ==
    /\ Len(trace) < MaxEvents
    /\ \E n \in {Len(trace) + 1} :
       \E st \in {log_attack(State, AttackRequest(EventIp(n)), EventType(n),
                             "details", EventIp(n), now, TRUE)} :
           /\ SetState(st)
           /\ trace' = Append(trace,
                  [n |-> n, ip |-> EventIp(n), attack_type |-> EventType(n),
                   t |-> now])
    /\ now' = now + 1
    /\ UNCHANGED <<config, response, classified, srvVars>>

NextHistory == RecordEvent

SpecHistory == InitHistory /\ [][NextHistory]_vars

\* C9: after n log_attack calls the history holds min(n, 1000) events, never
\* more than 1000, and they are the last min(n, 1000) recorded events in the
\* order they were recorded.
C9_HistoryBounded ==
    LET n == Len(trace)
        m == IF n < 1000 THEN n ELSE 1000
    IN  /\ Len(recent_attacks) <= 1000
        /\ Len(recent_attacks) = m
        /\ \A k \in 1..m :
              /\ recent_attacks[k].timestamp = trace[n - m + k].t
              /\ recent_attacks[k].client_ip = trace[n - m + k].ip
              /\ recent_attacks[k].attack_type = trace[n - m + k].attack_type

\* 1500 events were recorded and the history starts at event 501
C9_Witness ==
    /\ Len(trace) = 1500
    /\ Len(recent_attacks) = 1000
    /\ recent_attacks[1].timestamp = trace[501].t
    /\ recent_attacks[1000].timestamp = trace[1500].t

----------------------------------------------------------------------------
(* Strings, continued: what the Range parser of app/main.py uses           *)

RECURSIVE Split(_, _)
\* s.split(c) for a one-character separator c
Split(s, c) ==
    IF \A i \in 1..Len(s) : s[i] # c THEN <<s>>
    ELSE LET i == CHOOSE k \in 1..Len(s) :
                      s[k] = c /\ \A j \in 1..(k - 1) : s[j] # c
         IN  <<SubSeq(s, 1, i - 1)>> \o Split(SubSeq(s, i + 1, Len(s)), c)

WhitespaceChars == {" ", "\t", "\n", "\r"}

RECURSIVE LStrip(_)
LStrip(s) ==
    IF s # << >> /\ s[1] \in WhitespaceChars THEN LStrip(Tail(s)) ELSE s

RECURSIVE RStrip(_)
RStrip(s) ==
    IF s # << >> /\ s[Len(s)] \in WhitespaceChars
    THEN RStrip(SubSeq(s, 1, Len(s) - 1)) ELSE s

\* s.strip()
Strip(s) == RStrip(LStrip(s))

DigitChars == <<"0", "1", "2", "3", "4", "5", "6", "7", "8", "9">>

IsDigit(c) == \E i \in 1..10 : DigitChars[i] = c

DigitValue(c) == (CHOOSE i \in 1..10 : DigitChars[i] = c) - 1

RECURSIVE DigitsValue(_)
DigitsValue(d) ==
    IF d = << >> THEN 0
    ELSE 10 * DigitsValue(SubSeq(d, 1, Len(d) - 1)) + DigitValue(d[Len(d)])

\* int(s): surrounding whitespace, one sign, decimal digits with single
\* underscores between them; anything else raises ValueError (ok = FALSE)
PyInt(s) ==
    LET t == Strip(s)
        signed == t # << >> /\ t[1] \in {"+", "-"}
        u == IF signed THEN Tail(t) ELSE t
        valid ==
            /\ u # << >>
            /\ \A i \in 1..Len(u) : IsDigit(u[i]) \/ u[i] = "_"
            /\ u[1] # "_" /\ u[Len(u)] # "_"
            /\ \A i \in 1..(Len(u) - 1) : ~(u[i] = "_" /\ u[i + 1] = "_")
        magnitude == DigitsValue(SelectSeq(u, IsDigit))
    IN  IF ~valid THEN [ok |-> FALSE, value |-> 0]
        ELSE [ok |-> TRUE,
              value |-> IF signed /\ t[1] = "-" THEN 0 - magnitude
                        ELSE magnitude]

Min(a, b) == IF a <= b THEN a ELSE b

----------------------------------------------------------------------------
(* Static files (app/main.py)                                              *)
(* static_files maps a path below STATIC_ROOT to                           *)
(*   [kind |-> "file" or "dir", mtime |-> st_mtime, content |-> bytes].    *)
(* st_mtime is counted in ticks of 1/TicksPerSecond of a second: the file  *)
(* system keeps fractions of a second, an HTTP date does not.              *)

TicksPerSecond == 2

\* Path.name: the last component of the path
Basename(filename) ==
    LET parts == Split(filename, "/") IN parts[Len(parts)]

\* file_path.stat() and file_path.name as far as the handler reads them
FileStat(filename, file) ==
    [name |-> Basename(filename), mtime |-> file.mtime,
     size |-> Len(file.content)]

\* hashlib.md5(...).hexdigest(): equal inputs give equal digests, and the
\* digests of different inputs are taken to differ
Md5(data) == [md5 |-> data]

\* f"{file_path.name}-{stat.st_mtime}-{file_size}"
EtagContent(stat) == <<stat.name, stat.mtime, stat.size>>

\* last_modified.strftime("%a, %d %b %Y %H:%M:%S GMT"): whole seconds
HttpDate(mtime) == mtime \div TicksPerSecond

\* f.read(n) of a buffered binary file raises ValueError ("read length
\* must be non-negative or -1") for n < -1
ReadRaises(range) == range.end - range.start + 1 < 0 - 1

\* f.seek(start); f.read(n): n = -1 reads to the end of the file
ReadAt(content, start, n) ==
    LET last == IF n < 0 THEN Len(content) ELSE Min(start + n, Len(content))
    IN  IF start >= last THEN << >> ELSE SubSeq(content, start + 1, last)

\* mutant: the end of the range is not clamped to the file size
RangePart_noclamp(range_part, file_size) ==
    LET start_end == Split(range_part, "-")
        start == IF start_end[1] # << >> THEN PyInt(start_end[1])
                 ELSE [ok |-> TRUE, value |-> 0]
        end == IF start_end[2] # << >> THEN PyInt(start_end[2])
               ELSE [ok |-> TRUE, value |-> file_size - 1]
    IN  IF ~Contains(range_part, <<"-">>) \/ Len(start_end) # 2
        THEN [kind |-> "skip", start |-> 0, end |-> 0]
        ELSE IF ~start.ok \/ ~end.ok
        THEN [kind |-> "error", start |-> 0, end |-> 0]
        ELSE [kind |-> "range", start |-> start.value,
              end |-> end.value]

\* one range_part of the loop: skipped, a (start, end) pair, or ValueError
RangePart(range_part, file_size) ==
    LET start_end == Split(range_part, "-")
        start == IF start_end[1] # << >> THEN PyInt(start_end[1])
                 ELSE [ok |-> TRUE, value |-> 0]
        end == IF start_end[2] # << >> THEN PyInt(start_end[2])
               ELSE [ok |-> TRUE, value |-> file_size - 1]
    IN  IF ~Contains(range_part, <<"-">>) \/ Len(start_end) # 2
        THEN [kind |-> "skip", start |-> 0, end |-> 0]
        ELSE IF ~start.ok \/ ~end.ok
        THEN [kind |-> "error", start |-> 0, end |-> 0]
        ELSE [kind |-> "range", start |-> start.value,
              end |-> Min(end.value, file_size - 1)]

\* the list `ranges` built from range_header[6:], or the ValueError raised
\* while building it
ParseRanges(range_header, file_size) ==
    LET range_spec == SubSeq(range_header, 7, Len(range_header))
        parts == Split(range_spec, ",")
        results == [i \in 1..Len(parts) |-> RangePart(parts[i], file_size)]
        IsRange(r) == r.kind = "range"
    IN  [error |-> \E i \in 1..Len(parts) : results[i].kind = "error",
         ranges |-> SelectSeq(results, IsRange)]

BytesPrefix == <<"b", "y", "t", "e", "s", "=">>

\* Response(status_code=304)
NotModified(stat, etag) ==
    [status |-> 304, headers |-> EmptyDict, body |-> << >>,
     stat |-> stat, etag |-> etag]

\* the 206 answer to the first range of the list
PartialContent(file, stat, etag, range) ==
    LET content_length == range.end - range.start + 1
    IN  [status |-> 206,
         headers |->
             [h \in {"content-type", "content-length", "content-range",
                     "accept-ranges", "etag", "last-modified",
                     "cache-control"} |->
                 CASE h = "content-type" -> "application/octet-stream"
                   [] h = "content-length" -> content_length
                   [] h = "content-range" ->
                          [start |-> range.start, end |-> range.end,
                           size |-> stat.size]
                   [] h = "accept-ranges" -> "bytes"
                   [] h = "etag" -> etag
                   [] h = "last-modified" -> HttpDate(stat.mtime)
                   [] h = "cache-control" -> "public, max-age=3600"],
         body |-> ReadAt(file.content, range.start, content_length),
         stat |-> stat, etag |-> etag]

\* FileResponse(str(file_path), headers=headers)
FullFile(file, stat, etag) ==
    [status |-> 200,
     headers |->
         [h \in {"accept-ranges", "etag", "last-modified",
                 "cache-control"} |->
             CASE h = "accept-ranges" -> "bytes"
               [] h = "etag" -> etag
               [] h = "last-modified" -> HttpDate(stat.mtime)
               [] h = "cache-control" -> "public, max-age=3600"],
     body |-> file.content, stat |-> stat, etag |-> etag]

\* mutant: If-None-Match is not looked at
serve_file_with_etag_and_range_no_inm(req, filename, file) ==
    LET stat == FileStat(filename, file)
        etag == Md5(EtagContent(stat))
        hdr == req.headers
        parsed == ParseRanges(hdr["range"], stat.size)
    IN  IF /\ "if-modified-since" \in DOMAIN hdr
           /\ hdr["if-modified-since"].wellformed
           /\ stat.mtime <= hdr["if-modified-since"].sec * TicksPerSecond
        THEN NotModified(stat, etag)
        ELSE IF /\ "range" \in DOMAIN hdr
                /\ StartsWith(hdr["range"], BytesPrefix)
                /\ ~parsed.error
                /\ parsed.ranges # << >>
                /\ ~ReadRaises(parsed.ranges[1])
        THEN PartialContent(file, stat, etag, parsed.ranges[1])
        ELSE FullFile(file, stat, etag)

\* mutant: the Range header is looked at before the validators
serve_file_with_etag_and_range_range_first(req, filename, file) ==
    LET stat == FileStat(filename, file)
        etag == Md5(EtagContent(stat))
        hdr == req.headers
        parsed == ParseRanges(hdr["range"], stat.size)
    IN  IF /\ "range" \in DOMAIN hdr
           /\ StartsWith(hdr["range"], BytesPrefix)
           /\ ~parsed.error
           /\ parsed.ranges # << >>
           /\ ~ReadRaises(parsed.ranges[1])
        THEN PartialContent(file, stat, etag, parsed.ranges[1])
        ELSE IF "if-none-match" \in DOMAIN hdr /\ hdr["if-none-match"] = etag
        THEN NotModified(stat, etag)
        ELSE IF /\ "if-modified-since" \in DOMAIN hdr
                /\ hdr["if-modified-since"].wellformed
                /\ stat.mtime <= hdr["if-modified-since"].sec * TicksPerSecond
        THEN NotModified(stat, etag)
        ELSE FullFile(file, stat, etag)

serve_file_with_etag_and_range(req, filename, file) ==
    LET stat == FileStat(filename, file)
        etag == Md5(EtagContent(stat))
        hdr == req.headers
        parsed == ParseRanges(hdr["range"], stat.size)
    IN  IF "if-none-match" \in DOMAIN hdr /\ hdr["if-none-match"] = etag
        THEN NotModified(stat, etag)
        ELSE IF /\ "if-modified-since" \in DOMAIN hdr
                /\ hdr["if-modified-since"].wellformed
                /\ stat.mtime <= hdr["if-modified-since"].sec * TicksPerSecond
        THEN NotModified(stat, etag)
        ELSE IF /\ "range" \in DOMAIN hdr
                /\ StartsWith(hdr["range"], BytesPrefix)
                /\ ~parsed.error
                /\ parsed.ranges # << >>
                /\ ~ReadRaises(parsed.ranges[1])
        THEN PartialContent(file, stat, etag, parsed.ranges[1])
        ELSE FullFile(file, stat, etag)

----------------------------------------------------------------------------
(* Proxy and routes (app/main.py)                                          *)

\* a record with the fields of both, those of extra winning
Extend(rec, extra) ==
    [k \in DOMAIN rec \cup DOMAIN extra |->
        IF k \in DOMAIN extra THEN extra[k] ELSE rec[k]]

NoForward == [present |-> FALSE]

\* how an attempt to proxy goes: the backend answers, the connection
\* fails, it times out, the exchange fails in any other way, or reading
\* the body of the incoming request fails before the backend is contacted
BackendOutcomes == {"ok", "connect_error", "timeout", "error", "body_error"}

BackendBody == <<98, 101>>

\* raise HTTPException(status_code, detail)
HttpError(status_code, detail) ==
    [status |-> status_code, headers |-> EmptyDict, body |-> << >>,
     detail |-> detail, detail_arg |-> None]

\* str(e) of the exception caught by `except Exception`
ErrorMessage(outcome) ==
    IF outcome = "body_error" THEN "client disconnected" ELSE "backend failure"

\* mutant: a failed connection is tried a second time
proxy_request_retry(req, path, outcome) ==
    LET sent == [present |-> TRUE, method |-> req.method, path |-> path,
                 query |-> req.query]
        issued == outcome # "body_error"
        answer ==
            CASE outcome = "connect_error" ->
                     HttpError(502, "Backend server is not available")
              [] outcome = "timeout" ->
                     HttpError(504, "Backend server timeout")
              [] outcome \in {"error", "body_error"} ->
                     [HttpError(500, "Proxy error: {}")
                         EXCEPT !.detail_arg = ErrorMessage(outcome)]
              [] OTHER ->
                     [status |-> 200, headers |-> EmptyDict,
                      body |-> BackendBody, detail |-> None,
                      detail_arg |-> None]
    IN  Extend(answer,
               [forwarded |-> IF issued THEN sent ELSE NoForward,
                backend_requests |->
                    IF ~issued THEN 0
                    ELSE IF outcome = "connect_error" THEN 2 ELSE 1,
                outcome |-> outcome, proxied |-> TRUE,
                file_served |-> FALSE])

\* path is the path below TARGET_SERVER the request goes to;
\* backend_requests counts the calls of client.request
proxy_request(req, path, outcome) ==
    LET sent == [present |-> TRUE, method |-> req.method, path |-> path,
                 query |-> req.query]
        issued == outcome # "body_error"
        answer ==
            CASE outcome = "connect_error" ->
                     HttpError(502, "Backend server is not available")
              [] outcome = "timeout" ->
                     HttpError(504, "Backend server timeout")
              [] outcome \in {"error", "body_error"} ->
                     [HttpError(500, "Proxy error: {}")
                         EXCEPT !.detail_arg = ErrorMessage(outcome)]
              [] OTHER ->
                     [status |-> 200, headers |-> EmptyDict,
                      body |-> BackendBody, detail |-> None,
                      detail_arg |-> None]
    IN  Extend(answer,
               [forwarded |-> IF issued THEN sent ELSE NoForward,
                backend_requests |-> IF issued THEN 1 ELSE 0,
                outcome |-> outcome, proxied |-> TRUE,
                file_served |-> FALSE])

IndexHtml == <<"i", "n", "d", "e", "x", ".", "h", "t", "m", "l">>

\* fs is the content of STATIC_ROOT
serve_static_files(req, filename_param, fs, outcome) ==
    LET filename == IF filename_param = << >> THEN IndexHtml
                    ELSE filename_param
    IN  IF filename \in DOMAIN fs /\ fs[filename].kind = "file"
        THEN Extend(serve_file_with_etag_and_range(req, filename,
                                                   fs[filename]),
                    [detail |-> None, detail_arg |-> None,
                     forwarded |-> NoForward, backend_requests |-> 0,
                     proxied |-> FALSE, file_served |-> TRUE,
                     static_checked |-> TRUE, filename |-> filename])
        ELSE Extend(proxy_request(req, filename, outcome),
                    [static_checked |-> TRUE, filename |-> filename])

ApiPrefix == <<"/", "a", "p", "i", "/">>
QueryPrefix == <<"/", "q", "u", "e", "r", "y", "/">>

proxy_api_routes(req, path, outcome) ==
    Extend(proxy_request(req, Tail(ApiPrefix) \o path, outcome),
           [static_checked |-> FALSE])

proxy_query_routes(req, path, outcome) ==
    Extend(proxy_request(req, Tail(QueryPrefix) \o path, outcome),
           [static_checked |-> FALSE])

\* the endpoints that answer with a JSON document of their own
JsonEndpoint(name) ==
    [status |-> 200, headers |-> EmptyDict, body |-> <<name>>,
     detail |-> None, detail_arg |-> None, forwarded |-> NoForward,
     backend_requests |-> 0, proxied |-> FALSE, file_served |-> FALSE,
     static_checked |-> FALSE]

ProxyMethods == {"GET", "POST", "PUT", "DELETE", "PATCH"}

\* the routes of app in the order they are registered; a "prefix" route
\* ends in a {...:path} parameter.  The StaticFiles mount under /static is
\* left out: no request of the model goes there.
Routes ==
    << [kind |-> "prefix", path |-> <<"/">>,
        methods |-> {"GET"}, endpoint |-> "serve_static_files"],
       [kind |-> "prefix", path |-> ApiPrefix,
        methods |-> ProxyMethods, endpoint |-> "proxy_api_routes"],
       [kind |-> "prefix", path |-> QueryPrefix,
        methods |-> ProxyMethods, endpoint |-> "proxy_query_routes"],
       [kind |-> "exact", path |-> PathHealth,
        methods |-> {"GET"}, endpoint |-> "health_check"],
       [kind |-> "exact", path |-> <<"/">>,
        methods |-> {"GET"}, endpoint |-> "server_info"],
       [kind |-> "exact", path |-> <<"/", "s", "e", "c", "u", "r", "i", "t", "y", "/", "s", "t", "a", "t", "s">>,
        methods |-> {"GET"}, endpoint |-> "security_stats"],
       [kind |-> "exact", path |-> <<"/", "m", "o", "n", "i", "t", "o", "r", "i", "n", "g", "/", "s", "t", "a", "t", "s">>,
        methods |-> {"GET"}, endpoint |-> "monitoring_stats"],
       [kind |-> "exact", path |-> <<"/", "m", "o", "n", "i", "t", "o", "r", "i", "n", "g", "/", "a", "n", "a", "l", "y", "s", "i", "s">>,
        methods |-> {"GET"}, endpoint |-> "monitoring_analysis"],
       [kind |-> "exact", path |-> <<"/", "m", "e", "t", "r", "i", "c", "s">>,
        methods |-> {"GET"}, endpoint |-> "metrics"],
       [kind |-> "exact", path |-> <<"/", "m", "o", "n", "i", "t", "o", "r", "i", "n", "g", "/", "h", "i", "g", "h", "-", "t", "h", "r", "e", "a", "t", "-", "i", "p", "s">>,
        methods |-> {"GET"}, endpoint |-> "high_threat_ips"] >>

\* "NONE", "PARTIAL" (the path matches, the method does not) or "FULL"
RouteMatch(route, req) ==
    LET path_ok == IF route.kind = "exact" THEN req.path = route.path
                   ELSE StartsWith(req.path, route.path)
    IN  IF ~path_ok THEN "NONE"
        ELSE IF req.method \in route.methods THEN "FULL" ELSE "PARTIAL"

\* the value of the {...:path} parameter
RouteParam(route, req) ==
    SubSeq(req.path, Len(route.path) + 1, Len(req.path))

\* the router: the first route that matches path and method handles the
\* request; without one, the first route matching the path answers 405,
\* and without that the answer is 404
Dispatch(req, fs, outcome) ==
    LET full == {i \in DOMAIN Routes : RouteMatch(Routes[i], req) = "FULL"}
        partial == {i \in DOMAIN Routes :
                       RouteMatch(Routes[i], req) = "PARTIAL"}
        First(S) == CHOOSE i \in S : \A j \in S : i <= j
        NoEndpoint(status, detail) ==
            Extend(HttpError(status, detail),
                   [forwarded |-> NoForward, backend_requests |-> 0,
                    proxied |-> FALSE, file_served |-> FALSE,
                    static_checked |-> FALSE])
    IN  IF full # {}
        THEN LET route == Routes[First(full)]
                 param == RouteParam(route, req)
                 answer ==
                     CASE route.endpoint = "serve_static_files" ->
                              serve_static_files(req, param, fs, outcome)
                       [] route.endpoint = "proxy_api_routes" ->
                              proxy_api_routes(req, param, outcome)
                       [] route.endpoint = "proxy_query_routes" ->
                              proxy_query_routes(req, param, outcome)
                       [] OTHER -> JsonEndpoint(route.endpoint)
             IN  Extend(answer, [endpoint |-> route.endpoint])
        ELSE IF partial # {}
        THEN Extend(NoEndpoint(405, "Method Not Allowed"),
                    [endpoint |-> Routes[First(partial)].endpoint])
        ELSE Extend(NoEndpoint(404, "Not Found"), [endpoint |-> None])

NoCachePrefixes == {ApiPrefix, <<"/", "s", "e", "c", "u", "r", "i", "t", "y", "/">>, <<"/", "m", "o", "n", "i", "t", "o", "r", "i", "n", "g", "/">>}
ImmutablePrefixes == {<<"/", "s", "t", "a", "t", "i", "c", "/">>, <<"/", "c", "s", "s", "/">>, <<"/", "j", "s", "/">>, <<"/", "i", "m", "a", "g", "e", "s", "/">>}

\* CacheControlMiddleware.dispatch: the Cache-Control of every answer of
\* the routes is overwritten according to the path
CacheControlMiddleware(req, answer) ==
    LET no_cache == \E p \in NoCachePrefixes : StartsWith(req.path, p)
        immutable == \E p \in ImmutablePrefixes : StartsWith(req.path, p)
        h1 == IF no_cache
              THEN DictSet(DictSet(DictSet(answer.headers,
                       "cache-control", "no-cache, no-store, must-revalidate"),
                       "pragma", "no-cache"), "expires", "0")
              ELSE IF immutable
              THEN DictSet(answer.headers, "cache-control",
                           "public, max-age=31536000, immutable")
              ELSE DictSet(answer.headers, "cache-control",
                           "public, max-age=300")
    IN  [answer EXCEPT !.headers = h1]

----------------------------------------------------------------------------
(* The server answering requests: security_middleware, then the routes,    *)
(* while files under STATIC_ROOT are written and deleted.  The routes do   *)
(* not read the clock; when a file was written shows in its st_mtime.      *)
(* client_cache remembers, per file, the ETag of the last 200 answer and   *)
(* the file's name, st_mtime and size at that time.                        *)

MaxServe == 2

PathTestHtml == <<"/", "t", "e", "s", "t", ".", "h", "t", "m", "l">>
PathApiUsersFile == Tail(PathApiUsers)
PathQueryQ == <<"/", "q", "u", "e", "r", "y", "/", "q">>
PathMissingTxt == <<"/", "m", "i", "s", "s", "i", "n", "g", ".", "t", "x", "t">>
PathDocs == <<"/", "d", "o", "c", "s">>

Content3 == <<10, 11, 12>>
Content1 == <<30>>

\* the files the model writes and deletes
MutableFiles == {Tail(PathTestHtml)}

\* the latest st_mtime, in ticks, a file of the model gets
MaxMtime == 1

FileAt(mtime, content) ==
    [kind |-> "file", mtime |-> mtime, content |-> content]

Directory == [kind |-> "dir", mtime |-> 0, content |-> << >>]

\* STATIC_ROOT at the start: test.html and the directory docs, with or
\* without a file api/users
InitFiles ==
    LET base == DictSet(DictSet(EmptyDict, Tail(PathTestHtml),
                                FileAt(0, Content3)),
                        Tail(PathDocs), Directory)
    IN  {base, DictSet(base, PathApiUsersFile, FileAt(0, Content1))}

\* an ETag no answer of the server carried
ForeignEtag ==
    Md5(EtagContent([name |-> <<"o", "t", "h", "e", "r">>, mtime |-> 0,
                     size |-> 0]))

RangeFirstTwo == <<"b", "y", "t", "e", "s", "=", "0", "-", "1">>

\* the conditional and range headers of a request for `filename`
ServeHeaders(filename) ==
    LET none == EmptyDict
        cached == IF filename \in DOMAIN client_cache
                  THEN {DictSet(none, "if-none-match",
                                client_cache[filename].etag),
                        DictSet(DictSet(none, "if-none-match",
                                        client_cache[filename].etag),
                                "range", RangeFirstTwo)}
                  ELSE {}
    IN  {none, DictSet(none, "if-none-match", ForeignEtag),
         DictSet(none, "range", RangeFirstTwo)} \cup cached

ServeRequests ==
    { Request("GET", p, << >>, h, "a") :
        p \in {PathTestHtml}, h \in ServeHeaders(Tail(PathTestHtml)) }
    \cup
    { Request("GET", PathApiUsers, << >>, h, "a") :
        h \in {EmptyDict} \cup
              (IF PathApiUsersFile \in DOMAIN client_cache
               THEN {DictSet(EmptyDict, "if-none-match",
                             client_cache[PathApiUsersFile].etag)}
               ELSE {}) }
    \cup
    { Request(m, p, << >>, EmptyDict, "a") :
        m \in {"GET", "POST"}, p \in {PathApiUsers, PathQueryQ} }
    \cup
    { Request("GET", p, << >>, EmptyDict, "a") :
        p \in {PathHealth, PathMissingTxt, PathDocs} }

NoCacheEntry == [present |-> FALSE]

ServeNoResponse == [present |-> FALSE]

InitServe ==
    /\ config = DefaultConfig
    /\ now = 0
    /\ blocked_ips = InitState.blocked_ips
    /\ request_counts = InitState.request_counts
    /\ attack_stats = InitState.attack_stats
    /\ recent_attacks = InitState.recent_attacks
    /\ ip_threat_scores = InitState.ip_threat_scores
    /\ log_files = InitState.log_files
    /\ response = ServeNoResponse
    /\ trace = << >>
    /\ classified = NoClassified
    /\ static_files \in InitFiles
    /\ client_cache = EmptyDict

\* the file a request path names under STATIC_ROOT
FilenameOf(req) ==
    IF req.path = <<"/">> THEN IndexHtml ELSE Tail(req.path)

\* what follows security_middleware: the routes and the middleware around
\* them when it lets the request through, its 403 otherwise
RouteAnswer(r, req, fs, outcome) ==
    IF r.response = CallNext
    THEN CacheControlMiddleware(req, Dispatch(req, fs, outcome))
    ELSE Extend(HttpError(r.response.status, r.response.detail),
                [forwarded |-> NoForward, backend_requests |-> 0,
                 proxied |-> FALSE, file_served |-> FALSE,
                 static_checked |-> FALSE, endpoint |-> None])

\* the backend has an outcome to choose when the request reaches it
OutcomesFor(r, req, fs) ==
    IF RouteAnswer(r, req, fs, "ok").forwarded.present
    THEN BackendOutcomes ELSE {"ok"}

Serve(req) ==
    /\ Len(trace) < MaxServe
    /\ \E r \in {security_middleware(State, config, req, now, TRUE)} :
       \E outcome \in OutcomesFor(r, req, static_files) :
       \E answer \in {RouteAnswer(r, req, static_files, outcome)} :
           /\ SetState(r.st)
           /\ response' =
                  Extend(answer,
                         [present |-> TRUE, req |-> req,
                          allowed |-> ~r.should_block,
                          cached |-> DictGet(client_cache, FilenameOf(req),
                                             NoCacheEntry)])
           /\ client_cache' =
                  IF answer.status = 200 /\ "etag" \in DOMAIN answer.headers
                  THEN DictSet(client_cache, FilenameOf(req),
                               [present |-> TRUE,
                                etag |-> answer.headers["etag"],
                                stat |-> answer.stat])
                  ELSE client_cache
    /\ trace' = Append(trace, [ip |-> get_client_ip(req), t |-> now])
    /\ UNCHANGED <<config, now, classified, static_files>>

\* a file is written: new content, st_mtime the time of writing, which is
\* not before the st_mtime it had (files change as long as requests are
\* still to come)
WriteFile(filename, content, mtime) ==
    /\ Len(trace) < MaxServe
    /\ filename \in DOMAIN static_files => static_files[filename].mtime <= mtime
    /\ static_files' =
           DictSet(static_files, filename, FileAt(mtime, content))
    /\ static_files' # static_files
    /\ UNCHANGED <<secVars, monVars, classified, client_cache>>

DeleteFile(filename) ==
    /\ Len(trace) < MaxServe
    /\ filename \in DOMAIN static_files
    /\ static_files' = DictDel(static_files, filename)
    /\ UNCHANGED <<secVars, monVars, classified, client_cache>>

NextServe ==
    \/ \E req \in ServeRequests : Serve(req)
    \/ \E filename \in MutableFiles, content \in {Content3, Content1},
          mtime \in 0..MaxMtime :
           WriteFile(filename, content, mtime)
    \/ \E filename \in MutableFiles : DeleteFile(filename)

SpecServe == InitServe /\ [][NextServe]_vars

ApiOrQueryPath(path) ==
    StartsWith(path, ApiPrefix) \/ StartsWith(path, QueryPrefix)

\* C5: every allowed request whose path starts with /api/ or /query/ is
\* handled by a proxy route and forwarded to the backend, whatever the
\* method and the files under the static root, and the existence of a
\* static file is not checked for it.
C5_ApiAlwaysProxied ==
    (/\ response.present
     /\ response.allowed
     /\ ApiOrQueryPath(response.req.path)) =>
        /\ response.endpoint \in {"proxy_api_routes", "proxy_query_routes"}
        /\ response.forwarded.present
        /\ ~response.static_checked

\* GET /api/users answered with the file api/users of the static root
C5_ServedStatically ==
    /\ response.present
    /\ response.allowed
    /\ response.req.method = "GET"
    /\ response.req.path = PathApiUsers
    /\ response.endpoint = "serve_static_files"
    /\ response.static_checked
    /\ response.file_served
    /\ response.backend_requests = 0
    /\ response.status = 200
    /\ response.body = Content1

\* C10: when the name, modification time and size of a static file are what
\* they were at its last 200 answer, the ETag computed for the request is
\* the ETag of that answer, and a request carrying it as If-None-Match is
\* answered 304 with an empty body.
C10_EtagRoundTrip ==
    (/\ response.present
     /\ response.allowed
     /\ response.endpoint = "serve_static_files"
     /\ response.file_served
     /\ response.cached.present
     /\ response.cached.stat = response.stat) =>
        /\ response.etag = response.cached.etag
        /\ ("if-none-match" \in DOMAIN response.req.headers
              /\ response.req.headers["if-none-match"] = response.cached.etag)
             => (response.status = 304 /\ response.body = << >>)

\* a request for test.html, unchanged since its last 200 answer, carried
\* the ETag of that answer and was answered 304
C10_Witness ==
    /\ response.present
    /\ response.req.path = PathTestHtml
    /\ response.file_served
    /\ response.cached.present
    /\ response.cached.stat = response.stat
    /\ "if-none-match" \in DOMAIN response.req.headers
    /\ response.req.headers["if-none-match"] = response.cached.etag
    /\ response.status = 304

\* C12 as stated: every proxied request issues exactly one backend request,
\* and failures map to 502, 504 and 500.
C12_Original ==
    (response.present /\ response.proxied) =>
        /\ response.backend_requests = 1
        /\ response.outcome = "connect_error" =>
              (response.status = 502
                 /\ response.detail = "Backend server is not available")
        /\ response.outcome = "timeout" =>
              (response.status = 504
                 /\ response.detail = "Backend server timeout")
        /\ response.outcome \in {"error", "body_error"} =>
              (response.status = 500
                 /\ response.detail = "Proxy error: {}"
                 /\ response.detail_arg = ErrorMessage(response.outcome))

\* C12, amended: a proxied request issues at most one backend request,
\* exactly one unless reading the request body failed first; a connection
\* failure gives 502 "Backend server is not available", a timeout 504
\* "Backend server timeout", any other exception 500 with the message in
\* the "Proxy error: {}" template; nothing is retried.
C12_ProxyFailureMapping ==
    (response.present /\ response.proxied) =>
        /\ response.backend_requests =
               (IF response.outcome = "body_error" THEN 0 ELSE 1)
        /\ response.forwarded.present = (response.backend_requests = 1)
        /\ response.outcome = "connect_error" =>
              (response.status = 502
                 /\ response.detail = "Backend server is not available")
        /\ response.outcome = "timeout" =>
              (response.status = 504
                 /\ response.detail = "Backend server timeout")
        /\ response.outcome \in {"error", "body_error"} =>
              (response.status = 500
                 /\ response.detail = "Proxy error: {}"
                 /\ response.detail_arg = ErrorMessage(response.outcome))

\* POST /api/users met a backend that refused the connection: one backend
\* request, 502
C12_Witness ==
    /\ response.present
    /\ response.proxied
    /\ response.req.method = "POST"
    /\ response.endpoint = "proxy_api_routes"
    /\ response.outcome = "connect_error"
    /\ response.backend_requests = 1
    /\ response.status = 502

----------------------------------------------------------------------------
(* serve_file_with_etag_and_range on its own: one file under STATIC_ROOT,  *)
(* its size and st_mtime drawn at the start, and one request for it with   *)
(* any combination of If-None-Match, If-Modified-Since and Range.          *)

\* the largest byte position a Range header of the model names
MaxRangeIndex == 10

RECURSIVE IntToStr(_)
\* str(n) for n >= 0
IntToStr(n) ==
    IF n < 10 THEN <<DigitChars[n + 1]>>
    ELSE IntToStr(n \div 10) \o <<DigitChars[(n % 10) + 1]>>

\* the header value "bytes=a-b"
RangeHeader(a, b) == BytesPrefix \o IntToStr(a) \o <<"-">> \o IntToStr(b)

RangeOpenEnd == <<"b", "y", "t", "e", "s", "=", "5", "-">>
RangeSuffix == <<"b", "y", "t", "e", "s", "=", "-", "3">>
RangeNonNumeric == <<"b", "y", "t", "e", "s", "=", "a", "b", "c", "-", "2">>
RangeReversed == <<"b", "y", "t", "e", "s", "=", "2", "-", "1">>
RangeTwoParts == <<"b", "y", "t", "e", "s", "=", "0", "-", "1", ",", "2", "-", "3">>
RangeOtherUnit == <<"i", "t", "e", "m", "s", "=", "0", "-", "1">>
RangeEmptySpec == <<"b", "y", "t", "e", "s", "=">>
RangeTwoDashes == <<"b", "y", "t", "e", "s", "=", "1", "-", "2", "-", "3">>
RangeSpaced == <<"b", "y", "t", "e", "s", "=", " ", "1", " ", "-", " ", "2">>
RangeBadSecondPart == <<"b", "y", "t", "e", "s", "=", "0", "-", "1", ",", "x", "-", "2">>
RangeNoDash == <<"b", "y", "t", "e", "s", "=", "5">>
RangeSkippedFirst == <<"b", "y", "t", "e", "s", "=", "7", ",", "1", "-", "2">>

OddRanges ==
    { RangeOpenEnd,
      RangeSuffix,
      RangeNonNumeric,
      RangeReversed,
      RangeTwoParts,
      RangeOtherUnit,
      RangeEmptySpec,
      RangeTwoDashes,
      RangeSpaced,
      RangeBadSecondPart,
      RangeNoDash,
      RangeSkippedFirst }

Content0 == << >>
Content10 == <<100, 101, 102, 103, 104, 105, 106, 107, 108, 109>>

RangeFile == Tail(PathTestHtml)

\* the ETag a client got with an earlier 200 answer for the file as it is
CurrentEtag == Md5(EtagContent(FileStat(RangeFile, static_files[RangeFile])))

IfNoneMatchChoices ==
    {EmptyDict, DictSet(EmptyDict, "if-none-match", CurrentEtag),
     DictSet(EmptyDict, "if-none-match", ForeignEtag)}

\* a well-formed HTTP date of second 0 or 1, or a value strptime rejects
IfModifiedSinceChoices ==
    {EmptyDict}
    \cup { DictSet(EmptyDict, "if-modified-since",
                   [wellformed |-> TRUE, sec |-> s]) : s \in 0..1 }
    \cup { DictSet(EmptyDict, "if-modified-since",
                   [wellformed |-> FALSE, sec |-> 0]) }

RangeChoices ==
    {EmptyDict}
    \cup { DictSet(EmptyDict, "range", RangeHeader(a, b)) :
             a \in 0..MaxRangeIndex, b \in 0..MaxRangeIndex }
    \cup { DictSet(EmptyDict, "range", r) : r \in OddRanges }

RangeRequests ==
    { Request("GET", PathTestHtml, << >>, Extend(Extend(inm, ims), rng), "a") :
        inm \in IfNoneMatchChoices, ims \in IfModifiedSinceChoices,
        rng \in RangeChoices }

InitRange ==
    /\ config = DefaultConfig
    /\ now = 0
    /\ blocked_ips = InitState.blocked_ips
    /\ request_counts = InitState.request_counts
    /\ attack_stats = InitState.attack_stats
    /\ recent_attacks = InitState.recent_attacks
    /\ ip_threat_scores = InitState.ip_threat_scores
    /\ log_files = InitState.log_files
    /\ response = ServeNoResponse
    /\ trace = << >>
    /\ classified = NoClassified
    /\ static_files \in
           { DictSet(EmptyDict, RangeFile, FileAt(mtime, content)) :
               mtime \in 0..(MaxMtime + TicksPerSecond),
               content \in {Content0, Content1, Content3, Content10} }
    /\ client_cache = EmptyDict

ServeFile(req) ==
    /\ response' =
           Extend(serve_file_with_etag_and_range(req, RangeFile,
                                                 static_files[RangeFile]),
                  [present |-> TRUE, req |-> req])
    /\ UNCHANGED <<config, now, blocked_ips, request_counts, trace,
                   monVars, classified, srvVars>>

\* one request per run
NextRange == ~response.present /\ \E req \in RangeRequests : ServeFile(req)

SpecRange == InitRange /\ [][NextRange]_vars

\* the request carries an If-None-Match equal to the ETag of the file
IfNoneMatchMatches ==
    /\ "if-none-match" \in DOMAIN response.req.headers
    /\ response.req.headers["if-none-match"] = CurrentEtag

\* the request carries a well-formed If-Modified-Since that is not earlier
\* than the modification time of the file
IfModifiedSinceApplies ==
    /\ "if-modified-since" \in DOMAIN response.req.headers
    /\ response.req.headers["if-modified-since"].wellformed
    /\ static_files[RangeFile].mtime
           <= response.req.headers["if-modified-since"].sec * TicksPerSecond

\* C11: for a file of size S and Range: bytes=a-b with 0 <= a <= b and
\* a < S, and no validator that matches, the answer is 206 with
\* Content-Range a-e/S where e = min(b, S-1), Accept-Ranges: bytes and a
\* body of the e-a+1 bytes a..e of the file.
C11_RangeCorrect ==
    response.present =>
        \A a \in 0..MaxRangeIndex, b \in 0..MaxRangeIndex :
            LET content == static_files[RangeFile].content
                S == Len(content)
                e == Min(b, S - 1)
            IN  (/\ a <= b /\ a < S
                 /\ ~IfNoneMatchMatches
                 /\ ~IfModifiedSinceApplies
                 /\ "range" \in DOMAIN response.req.headers
                 /\ response.req.headers["range"] = RangeHeader(a, b)) =>
                    /\ response.status = 206
                    /\ response.headers["content-range"] =
                           [start |-> a, end |-> e, size |-> S]
                    /\ response.headers["accept-ranges"] = "bytes"
                    /\ Len(response.body) = e - a + 1
                    /\ response.body = SubSeq(content, a + 1, e + 1)

\* bytes=0-4 on the 10-byte file: 206, bytes 0-4/10, the first five bytes
C11_Witness ==
    /\ response.present
    /\ static_files[RangeFile].content = Content10
    /\ "range" \in DOMAIN response.req.headers
    /\ response.req.headers["range"] = RangeHeader(0, 4)
    /\ response.status = 206
    /\ response.headers["content-range"] = [start |-> 0, end |-> 4, size |-> 10]
    /\ response.body = <<100, 101, 102, 103, 104>>

----------------------------------------------------------------------------
(* The pipeline with a disk that may fail: every request is handled with   *)
(* log writes that succeed or with log writes that raise.                  *)

MaxLogReq == 2

LogRequests ==
    { Request("GET", PathHealth, << >>, EmptyDict, "a"),
      Request("GET", PathGitConfig, << >>, EmptyDict, "a"),
      Request("GET", PathGitConfig, << >>, EmptyDict, "b"),
      Request("GET", PathSearch, QueryCmd, EmptyDict, "a") }

InitLog == Init

HandleRequestIo(req, io_ok) ==
    /\ Len(trace) < MaxLogReq
    /\ \E r \in {security_middleware(State, config, req, now, io_ok)} :
           /\ SetState(r.st)
           /\ response' = r.response
           /\ trace' = Append(trace,
                  [ip |-> get_client_ip(req), t |-> now, req |-> req,
                   io_ok |-> io_ok, pre |-> State, post |-> r.st,
                   should_block |-> r.should_block, reason |-> r.reason,
                   response |-> r.response])
    /\ UNCHANGED <<config, now, classified, srvVars>>

NextLog ==
    \/ Tick
    \/ \E req \in LogRequests, io_ok \in BOOLEAN : HandleRequestIo(req, io_ok)

SpecLog == InitLog /\ [][NextLog]_vars

\* entry e of the trace wrote, or would have written, a log line
LogsSomething(e) ==
    security_middleware(e.pre, config, e.req, e.t, TRUE).st.log_files
        # e.pre.log_files

\* C13: a request handled while log writes fail leaves the counters, threat
\* scores, attack history, timestamps and block list as the same request
\* handled with working log writes leaves them, gets the same decision and
\* answer, and leaves the log files as they were.
C13_BestEffortLogging ==
    \A i \in DOMAIN trace :
        LET e == trace[i]
            good == security_middleware(e.pre, config, e.req, e.t, TRUE)
        IN  /\ Snapshot(e.post) = Snapshot(good.st)
            /\ e.should_block = good.should_block
            /\ e.reason = good.reason
            /\ e.response = good.response
            /\ ~e.io_ok => e.post.log_files = e.pre.log_files
            /\ e.io_ok => e.post.log_files = good.st.log_files

\* with failing writes, a suspicious request was counted and let through
\* and a later one was blocked
C13_Witness ==
    \E i, j \in DOMAIN trace :
        /\ i < j
        /\ ~trace[i].io_ok /\ ~trace[j].io_ok
        /\ LogsSomething(trace[i]) /\ LogsSomething(trace[j])
        /\ ~trace[i].should_block
        /\ trace[j].should_block
        /\ trace[j].post.attack_stats.blocked_requests
               > trace[j].pre.attack_stats.blocked_requests

----------------------------------------------------------------------------
(* IP blocking switched off: requests go through the pipeline and block_ip *)
(* and is_ip_blocked are also called directly.                             *)

MaxGateOps == 3

GateConfigs == { [c EXCEPT !.enable_ip_blocking = FALSE] : c \in SecConfigs }

GateRequests ==
    { Request("GET", PathHealth, << >>, EmptyDict, "a"),
      Request("GET", PathGitConfig, << >>, EmptyDict, "a"),
      Request("GET", PathGitConfig, << >>, EmptyDict, "b") }

InitGate ==
    /\ config \in GateConfigs
    /\ now = 0
    /\ blocked_ips = InitState.blocked_ips
    /\ request_counts = InitState.request_counts
    /\ attack_stats = InitState.attack_stats
    /\ recent_attacks = InitState.recent_attacks
    /\ ip_threat_scores = InitState.ip_threat_scores
    /\ log_files = InitState.log_files
    /\ response = NoResponse
    /\ trace = << >>
    /\ classified = NoClassified
    /\ static_files = EmptyDict
    /\ client_cache = EmptyDict

GateRequest(req) ==
    /\ Len(trace) < MaxGateOps
    /\ \E r \in {security_middleware(State, config, req, now, TRUE)} :
           /\ SetState(r.st)
           /\ response' = r.response
           /\ trace' = Append(trace,
                  [op |-> "request", ip |-> get_client_ip(req), t |-> now,
                   ret |-> FALSE, should_block |-> r.should_block,
                   reason |-> r.reason,
                   pre |-> Snapshot(State), post |-> Snapshot(r.st)])
    /\ UNCHANGED <<config, now, classified, srvVars>>

GateBlockIp(ip) ==
    /\ Len(trace) < MaxGateOps
    /\ \E st \in {block_ip(State, config, ip, ReasonDefault, now, TRUE)} :
           /\ SetState(st)
           /\ trace' = Append(trace,
                  [op |-> "block_ip", ip |-> ip, t |-> now, ret |-> FALSE,
                   should_block |-> FALSE, reason |-> NoReason,
                   pre |-> Snapshot(State), post |-> Snapshot(st)])
    /\ UNCHANGED <<config, now, response, classified, srvVars>>

GateIsIpBlocked(ip) ==
    /\ Len(trace) < MaxGateOps
    /\ \E r \in {is_ip_blocked(State, config, ip, now)} :
           /\ SetState(r.st)
           /\ trace' = Append(trace,
                  [op |-> "is_ip_blocked", ip |-> ip, t |-> now,
                   ret |-> r.ret, should_block |-> FALSE, reason |-> NoReason,
                   pre |-> Snapshot(State), post |-> Snapshot(r.st)])
    /\ UNCHANGED <<config, now, response, classified, srvVars>>

NextGate ==
    \/ Tick
    \/ \E req \in GateRequests : GateRequest(req)
    \/ \E ip \in IPs : GateBlockIp(ip)
    \/ \E ip \in IPs : GateIsIpBlocked(ip)

SpecGate == InitGate /\ [][NextGate]_vars

\* C15: with enable_ip_blocking false, every is_ip_blocked call returns
\* false, every block_ip call and every request leaves the block list as
\* it was, and no request is denied with reason "IP is blocked".
C15_BlockingGate ==
    \A i \in DOMAIN trace :
        LET e == trace[i]
        IN  /\ e.post.blocked_ips = e.pre.blocked_ips
            /\ e.op = "is_ip_blocked" => ~e.ret
            /\ e.op = "request" => e.reason # ReasonBlocked

\* block_ip was called for an IP, a scanning request of that IP was denied
\* for repeated suspicious requests, and the IP was then looked up
C15_Witness ==
    \E i, j, k \in DOMAIN trace :
        /\ i < j /\ j < k
        /\ trace[i].op = "block_ip"
        /\ trace[j].op = "request" /\ trace[j].should_block
        /\ trace[j].reason.text = "Multiple suspicious requests"
        /\ trace[k].op = "is_ip_blocked"
        /\ trace[i].ip = trace[j].ip /\ trace[j].ip = trace[k].ip

----------------------------------------------------------------------------
(* get_security_stats against the block list, on a clock that advances in  *)
(* ticks of 1/StatsTicks second so that remaining times have a fraction.   *)

StatsTicks == 2
MaxStatsOps == 4
MaxStatsTime == 5          \* ticks
MaxBlockSeconds == 2

StatsConfigs ==
    { [DefaultConfig EXCEPT !.block_duration = d] : d \in 1..MaxBlockSeconds }

\* the configuration with block_duration converted to ticks
InTicks(cfg) == [cfg EXCEPT !.block_duration = @ * StatsTicks]

NoStats == [present |-> FALSE]

InitStats ==
    /\ config \in StatsConfigs
    /\ now = 0
    /\ blocked_ips = InitState.blocked_ips
    /\ request_counts = InitState.request_counts
    /\ attack_stats = InitState.attack_stats
    /\ recent_attacks = InitState.recent_attacks
    /\ ip_threat_scores = InitState.ip_threat_scores
    /\ log_files = InitState.log_files
    /\ response = NoStats
    /\ trace = << >>
    /\ classified = NoClassified
    /\ static_files = EmptyDict
    /\ client_cache = EmptyDict

StatsTick ==
    /\ now < MaxStatsTime
    /\ now' = now + 1
    /\ UNCHANGED <<config, blocked_ips, request_counts, monVars, response,
                   trace, classified, srvVars>>

StatsBlockIp(ip) ==
    /\ Len(trace) < MaxStatsOps
    /\ SetState(block_ip(State, InTicks(config), ip, ReasonDefault, now, TRUE))
    /\ trace' = Append(trace, "block_ip")
    /\ UNCHANGED <<config, now, response, classified, srvVars>>

StatsIsIpBlocked(ip) ==
    /\ Len(trace) < MaxStatsOps
    /\ SetState(is_ip_blocked(State, InTicks(config), ip, now).st)
    /\ trace' = Append(trace, "is_ip_blocked")
    /\ UNCHANGED <<config, now, response, classified, srvVars>>

GetSecurityStats ==
    /\ Len(trace) < MaxStatsOps
    /\ response' = [present |-> TRUE, t |-> now, blocked_ips |-> blocked_ips,
                    stats |-> get_security_stats_in(State, config, now,
                                                    StatsTicks)]
    /\ trace' = Append(trace, "get_security_stats")
    /\ UNCHANGED <<config, now, blocked_ips, request_counts, monVars,
                   classified, srvVars>>

NextStats ==
    \/ StatsTick
    \/ \E ip \in IPs : StatsBlockIp(ip)
    \/ \E ip \in IPs : StatsIsIpBlocked(ip)
    \/ GetSecurityStats

SpecStats == InitStats /\ [][NextStats]_vars

\* is_ip_blocked(ip) would return true on the state the statistics were
\* computed from
WouldBeBlocked(ip) ==
    is_ip_blocked([State EXCEPT !.blocked_ips = response.blocked_ips],
                  InTicks(config), ip, response.t).ret

\* whole seconds v = the remaining r ticks truncated
IsTruncationOf(v, r) ==
    v * StatsTicks <= r /\ r < (v + 1) * StatsTicks

\* C16: the active_blocks of get_security_stats holds exactly the IPs that
\* is_ip_blocked reports blocked at that time, each with the remaining
\* block time truncated to whole seconds, between 0 and block_duration,
\* and blocked_ips_count is the number of these IPs.
C16_StatsAgreeWithBlockList ==
    response.present =>
        LET active_blocks == response.stats.active_blocks
        IN  /\ DOMAIN active_blocks = { ip \in IPs : WouldBeBlocked(ip) }
            /\ \A ip \in DOMAIN active_blocks :
                   /\ IsTruncationOf(active_blocks[ip],
                          config.block_duration * StatsTicks
                            - (response.t - response.blocked_ips[ip]))
                   /\ active_blocks[ip] >= 0
                   /\ active_blocks[ip] <= config.block_duration
            /\ response.stats.blocked_ips_count
                   = Cardinality(DOMAIN active_blocks)

\* the statistics list one IP with a fraction of a second left, shown as
\* 0, while the entry of another IP has run out and is left out
C16_Witness ==
    /\ response.present
    /\ \E ip \in DOMAIN response.stats.active_blocks :
           /\ response.stats.active_blocks[ip] = 0
           /\ config.block_duration * StatsTicks
                - (response.t - response.blocked_ips[ip]) = 1
    /\ \E ip \in DOMAIN response.blocked_ips :
           ip \notin DOMAIN response.stats.active_blocks

----------------------------------------------------------------------------
(* AttackMonitor.get_high_threat_ips, called between log_attack calls.     *)

MaxThreatOps == 3

\* the attributes AttackMonitor.__init__ assigns
AttackMonitorAttributes ==
    {"log_dir", "attack_stats", "recent_attacks", "ip_threat_scores",
     "attack_patterns", "config"}

\* for attack in reversed(self.recent_attacks): if attack["client_ip"] == ip
_get_last_attack_time(st, ip) ==
    LET hits == { i \in DOMAIN st.recent_attacks :
                     st.recent_attacks[i].client_ip = ip }
    IN  IF hits = {} THEN None
        ELSE st.recent_attacks[CHOOSE i \in hits : \A k \in hits : k <= i].timestamp

RECURSIVE SortByScore(_, _)
\* high_threat_ips.sort(key=lambda x: x["threat_score"], reverse=True)
SortByScore(scores, ips) ==
    IF ips = {} THEN << >>
    ELSE LET top == CHOOSE ip \in ips : \A o \in ips : scores[o] <= scores[ip]
         IN  <<top>> \o SortByScore(scores, ips \ {top})

\* threshold: int = None
NoThreshold == [given |-> FALSE, value |-> 0]
Threshold(n) == [given |-> TRUE, value |-> n]

\* the loop reads self.threat_scores, which no code assigns; the scores
\* are kept in self.ip_threat_scores
get_high_threat_ips(st, threshold) ==
    LET th == IF threshold = NoThreshold
              THEN monitor_config.threat_score_threshold ELSE threshold.value
    IN  IF "threat_scores" \notin AttackMonitorAttributes
        THEN [raised |-> "AttributeError", ret |-> << >>]
        ELSE LET scores == st.ip_threat_scores
                 order == SortByScore(scores,
                              { ip \in DOMAIN scores : scores[ip] >= th })
             IN  [raised |-> "",
                  ret |-> [i \in DOMAIN order |->
                             [ip |-> order[i],
                              threat_score |-> scores[order[i]],
                              last_seen |->
                                  _get_last_attack_time(st, order[i])]]]

Thresholds == {NoThreshold, Threshold(1), Threshold(5)}
ThreatAttackTypes == {"sql_injection", "scanning"}

NoCall == [present |-> FALSE]

ThreatLogAttack(ip, attack_type) ==
    /\ Len(trace) < MaxThreatOps
    /\ SetState(log_attack(State, AttackRequest(ip), attack_type,
                           "details", ip, now, TRUE))
    /\ trace' = Append(trace, "log_attack")
    /\ now' = now + 1
    /\ UNCHANGED <<config, response, classified, srvVars>>

GetHighThreatIps(threshold) ==
    /\ Len(trace) < MaxThreatOps
    /\ response' = Extend(get_high_threat_ips(State, threshold),
                          [present |-> TRUE,
                           threshold |-> IF threshold = NoThreshold
                                         THEN monitor_config.threat_score_threshold
                                         ELSE threshold.value,
                           scores |-> ip_threat_scores])
    /\ trace' = Append(trace, "get_high_threat_ips")
    /\ UNCHANGED <<config, now, blocked_ips, request_counts, monVars,
                   classified, srvVars>>

InitThreat ==
    /\ config = DefaultConfig
    /\ now = 0
    /\ blocked_ips = InitState.blocked_ips
    /\ request_counts = InitState.request_counts
    /\ attack_stats = InitState.attack_stats
    /\ recent_attacks = InitState.recent_attacks
    /\ ip_threat_scores = InitState.ip_threat_scores
    /\ log_files = InitState.log_files
    /\ response = NoCall
    /\ trace = << >>
    /\ classified = NoClassified
    /\ static_files = EmptyDict
    /\ client_cache = EmptyDict

NextThreat ==
    \/ \E ip \in IPs, attack_type \in ThreatAttackTypes :
           ThreatLogAttack(ip, attack_type)
    \/ \E threshold \in Thresholds : GetHighThreatIps(threshold)

SpecThreat == InitThreat /\ [][NextThreat]_vars

\* C17 as stated: a call returns, without raising, a list holding exactly
\* the IPs whose score is >= the threshold, by non-increasing score.
C17_HighThreatIps ==
    response.present =>
        /\ response.raised = ""
        /\ { response.ret[i].ip : i \in DOMAIN response.ret }
               = { ip \in DOMAIN response.scores :
                      response.scores[ip] >= response.threshold }
        /\ \A i, j \in DOMAIN response.ret :
               i < j => response.ret[i].threat_score
                           >= response.ret[j].threat_score

\* every call made so far has raised AttributeError
C17_CallRaises ==
    response.present => response.raised = "AttributeError"

\* a call was made while an IP had a score at or above the threshold
C17_Witness ==
    /\ response.present
    /\ \E ip \in DOMAIN response.scores :
           response.scores[ip] >= response.threshold

----------------------------------------------------------------------------
(* GET /health under SpecServe.                                            *)

HealthRequest(req) == req.method = "GET" /\ req.path = PathHealth

\* C18 as stated: an allowed GET /health is answered 200 by health_check,
\* without a look at the static root and without a request to the backend.
C18_HealthLocal ==
    (/\ response.present
     /\ response.allowed
     /\ HealthRequest(response.req)) =>
        /\ response.status = 200
        /\ response.endpoint = "health_check"
        /\ ~response.static_checked
        /\ ~response.forwarded.present

\* every allowed GET /health went through serve_static_files
C18_HealthShadowed ==
    (/\ response.present
     /\ response.allowed
     /\ HealthRequest(response.req)) =>
        /\ response.endpoint = "serve_static_files"
        /\ response.static_checked

\* an allowed GET /health was forwarded to an unreachable backend and
\* answered 502
C18_Witness ==
    /\ response.present
    /\ response.allowed
    /\ HealthRequest(response.req)
    /\ response.forwarded.present
    /\ response.forwarded.path = Tail(PathHealth)
    /\ response.status = 502

----------------------------------------------------------------------------
(* Several requests in flight at once.  The server handles requests as     *)
(* tasks of one event loop: a task gives way to the others only where it   *)
(* awaits.  The middleware around security_middleware awaits before and    *)
(* after it (receiving the request, call_next, the backend call), while    *)
(* security_middleware, analyze_request and the monitor's log_* functions  *)
(* are plain functions without an await, so each request's security step   *)
(* runs from its first read to its last write without giving way.  What    *)
(* a task does after its security step does not touch the security state   *)
(* and is left out.  response[p] is the position of request p.             *)

MaxInFlight == 3

Tasks == 1..MaxInFlight

ConcurrentRequests ==
    { Request("GET", PathHealth, << >>, EmptyDict, "a"),
      Request("GET", PathGitConfig, << >>, EmptyDict, "a"),
      Request("GET", PathHealth, << >>, EmptyDict, "b") }

TaskIdle == [stage |-> "idle", req |-> NoRequest, answer |-> NoResponse]

ConcurrentConfigs ==
    { c \in SecConfigs : /\ c.block_duration = TimeStep
                         /\ c.suspicious_request_threshold = MaxK }

InitConcurrent ==
    /\ config \in ConcurrentConfigs
    /\ now = 0
    /\ blocked_ips = InitState.blocked_ips
    /\ request_counts = InitState.request_counts
    /\ attack_stats = InitState.attack_stats
    /\ recent_attacks = InitState.recent_attacks
    /\ ip_threat_scores = InitState.ip_threat_scores
    /\ log_files = InitState.log_files
    /\ response = [p \in Tasks |-> TaskIdle]
    /\ trace = << >>
    /\ classified = NoClassified
    /\ static_files = EmptyDict
    /\ client_cache = EmptyDict

\* the request is accepted and its task waits in the outer middleware;
\* tasks are numbered in the order their requests arrive
Arrive(p, req) ==
    /\ response[p].stage = "idle"
    /\ \A q \in Tasks : q < p => response[q].stage # "idle"
    /\ response' = [response EXCEPT
                       ![p] = [stage |-> "received", req |-> req,
                               answer |-> NoResponse]]
    /\ UNCHANGED <<config, now, blocked_ips, request_counts, monVars, trace,
                   classified, srvVars>>

\* security_middleware for request p, in one piece
SecurityStep(p) ==
    /\ response[p].stage = "received"
    /\ \E r \in {security_middleware(State, config, response[p].req,
                                     now, TRUE)} :
           /\ SetState(r.st)
           /\ response' = [response EXCEPT
                              ![p] = [stage |-> IF r.should_block THEN "denied"
                                                ELSE "handling",
                                      req |-> response[p].req,
                                      answer |-> r.response]]
           /\ trace' = Append(trace,
                  [p |-> p, ip |-> get_client_ip(response[p].req), t |-> now,
                   matches |-> is_suspicious_request(config,
                                   response[p].req).suspicious,
                   should_block |-> r.should_block, reason |-> r.reason])
    /\ UNCHANGED <<config, now, classified, srvVars>>

ClockStep ==
    /\ now + TimeStep <= MaxTime
    /\ now' = now + TimeStep
    /\ UNCHANGED <<config, blocked_ips, request_counts, monVars, response,
                   trace, classified, srvVars>>

NextConcurrent ==
    \/ ClockStep
    \/ \E p \in Tasks, req \in ConcurrentRequests : Arrive(p, req)
    \/ \E p \in Tasks : SecurityStep(p)

SpecConcurrent == InitConcurrent /\ [][NextConcurrent]_vars

\* the security steps of ip that went through check_rate_limit
RateChecked(ip) ==
    { i \in DOMAIN trace : trace[i].ip = ip /\ trace[i].reason # ReasonBlocked }

\* the timestamps request_counts[ip] must hold: those of the allowed or
\* K-blocked steps of ip not older than 60 s at the last pruning
ExpectedTimestamps(ip) ==
    LET last == CHOOSE i \in RateChecked(ip) : \A k \in RateChecked(ip) : k <= i
        kept(i) == /\ trace[i].ip = ip
                   /\ trace[i].reason \notin {ReasonBlocked, ReasonRateLimit}
                   /\ trace[last].t - trace[i].t < RATE_WINDOW
        idx == SelectSeq([i \in DOMAIN trace |-> i], kept)
    IN  [n \in DOMAIN idx |-> trace[idx[n]].t]

RECURSIVE SumOver(_, _)
SumOver(f, n) == IF n = 0 THEN 0 ELSE f[n] + SumOver(f, n - 1)

\* blocked_requests grows by one in security_middleware and by one more in
\* block_ip
BlockedIncrements(e) ==
    IF ~e.should_block THEN 0
    ELSE IF e.reason = ReasonBlocked THEN 1
    ELSE IF config.enable_ip_blocking THEN 2 ELSE 1

SuspiciousIncrements(e) ==
    IF e.matches /\ e.reason \notin {ReasonBlocked, ReasonRateLimit}
       /\ config.log_suspicious_activity
    THEN 1 ELSE 0

\* C19: whatever the interleaving of the requests in flight, the requests
\* of one IP let through with timestamps less than 60 s apart are at most
\* max_requests_per_minute, request_counts holds the timestamp of every
\* request that passed the rate limiter and is still in the window, and
\* the blocked and suspicious counters hold every increment made.
C19_AtomicSecurityStep ==
    /\ \A i \in DOMAIN trace :
           Cardinality({ j \in DOMAIN trace :
                            /\ trace[j].ip = trace[i].ip
                            /\ trace[j].reason
                                  \notin {ReasonBlocked, ReasonRateLimit}
                            /\ trace[j].t >= trace[i].t
                            /\ trace[j].t - trace[i].t < RATE_WINDOW })
               <= config.max_requests_per_minute
    /\ \A ip \in IPs :
           IF RateChecked(ip) = {} THEN ip \notin DOMAIN request_counts
           ELSE /\ ip \in DOMAIN request_counts
                /\ request_counts[ip] = ExpectedTimestamps(ip)
    /\ attack_stats.blocked_requests
           = SumOver([i \in DOMAIN trace |-> BlockedIncrements(trace[i])],
                     Len(trace))
    /\ attack_stats.suspicious_requests
           = SumOver([i \in DOMAIN trace |-> SuspiciousIncrements(trace[i])],
                     Len(trace))

\* three requests of one IP were received before any was checked, the
\* last to arrive was checked first; the limit of two let two of them
\* through and denied the third
C19_Witness ==
    /\ config.max_requests_per_minute = 2
    /\ Len(trace) = 3
    /\ \A i \in DOMAIN trace : trace[i].ip = "a"
    /\ trace[1].p = 3
    /\ ~trace[1].should_block /\ ~trace[2].should_block
    /\ trace[3].reason = ReasonRateLimit
    /\ Len(request_counts["a"]) = 2

----------------------------------------------------------------------------
(* The order of the validators and the Range header, under SpecRange.      *)

\* the request carries Range: bytes=a-b with 0 <= a <= b and a inside the
\* file
ValidRange ==
    /\ "range" \in DOMAIN response.req.headers
    /\ \E a \in 0..MaxRangeIndex, b \in 0..MaxRangeIndex :
           /\ a <= b /\ a < Len(static_files[RangeFile].content)
           /\ response.req.headers["range"] = RangeHeader(a, b)

\* C20: a request whose If-None-Match equals the ETag, or whose
\* If-Modified-Since is not earlier than the file's modification time, is
\* answered 304 whatever its Range header; with neither, a valid Range is
\* answered 206 and any other request 200 or 206; 206 is given only to a
\* request with a Range header and no validator that applies.
C20_Precedence ==
    response.present =>
        /\ (IfNoneMatchMatches \/ IfModifiedSinceApplies)
               => response.status = 304
        /\ ~(IfNoneMatchMatches \/ IfModifiedSinceApplies)
               => /\ response.status \in {200, 206}
                  /\ ValidRange => response.status = 206
        /\ response.status = 206
               => "range" \in DOMAIN response.req.headers

\* matching If-None-Match together with a valid Range: 304, empty body
C20_Witness ==
    /\ response.present
    /\ IfNoneMatchMatches
    /\ ~IfModifiedSinceApplies
    /\ ValidRange
    /\ response.status = 304
    /\ response.body = << >>

\* an If-Modified-Since that applies, a foreign If-None-Match and a valid
\* Range: 304
C20_WitnessModifiedSince ==
    /\ response.present
    /\ "if-none-match" \in DOMAIN response.req.headers
    /\ ~IfNoneMatchMatches
    /\ IfModifiedSinceApplies
    /\ ValidRange
    /\ response.status = 304

----------------------------------------------------------------------------
(* Range headers the parser does not take as written, under SpecRange.     *)

\* headers with a part that has a non-numeric bound, no "-" or two "-"
UnparsableRanges ==
    { RangeNonNumeric, RangeNoDash, RangeTwoDashes, RangeBadSecondPart,
      RangeSkippedFirst }

NoValidatorApplies == ~IfNoneMatchMatches /\ ~IfModifiedSinceApplies

\* the answer is the whole file with status 200
WholeFile ==
    /\ response.status = 200
    /\ response.body = static_files[RangeFile].content

\* C21 as stated: a Range header with a part that cannot be parsed is
\* answered like a request without Range: the whole file with status 200.
C21_UnparsableIgnored ==
    (/\ response.present
     /\ NoValidatorApplies
     /\ "range" \in DOMAIN response.req.headers
     /\ response.req.headers["range"] \in UnparsableRanges) =>
        WholeFile

\* what the parser does: a non-numeric bound anywhere, or no part left
\* after the parts without exactly one "-" are dropped, gives the whole
\* file; no answer has a 4xx or 5xx status
C21_ValueErrorIgnored ==
    response.present =>
        /\ response.status \in {200, 206, 304}
        /\ (/\ NoValidatorApplies
            /\ "range" \in DOMAIN response.req.headers
            /\ response.req.headers["range"]
                  \in {RangeNonNumeric, RangeNoDash, RangeTwoDashes,
                       RangeBadSecondPart, RangeEmptySpec}) => WholeFile

\* Range: bytes=7,1-2 on the 3-byte file: the part "7" is dropped and
\* bytes 1-2 are served with status 206
C21_Witness ==
    /\ response.present
    /\ NoValidatorApplies
    /\ "range" \in DOMAIN response.req.headers
    /\ response.req.headers["range"] = RangeSkippedFirst
    /\ static_files[RangeFile].content = Content3
    /\ response.status = 206
    /\ response.headers["content-range"] = [start |-> 1, end |-> 2, size |-> 3]

----------------------------------------------------------------------------
(* What count_suspicious_requests counts, under Spec.                      *)

\* the requests of the IP of entry i, entry i included, that matched the
\* pattern catalog, passed the rate limiter and are less than 60 s old
\* at entry i
SuspiciousInWindow(i) ==
    { j \in 1..i : /\ trace[j].ip = trace[i].ip
                   /\ trace[j].matches
                   /\ trace[j].reason \notin {ReasonBlocked, ReasonRateLimit}
                   /\ trace[i].t - trace[j].t < RATE_WINDOW }

BlockedAsSuspicious(i) ==
    /\ trace[i].should_block
    /\ trace[i].reason.text = "Multiple suspicious requests"

\* C22 as stated: a request is blocked for repeated suspicious requests
\* only when its IP has made at least suspicious_request_threshold
\* suspicious requests in the last 60 seconds.
C22_CountsSuspiciousOnly ==
    \A i \in DOMAIN trace :
        BlockedAsSuspicious(i) =>
            Cardinality(SuspiciousInWindow(i))
                >= config.suspicious_request_threshold

\* what the function counts: every timestamp of the IP in the rate
\* limiter's list that is less than 60 s old, whatever the request was
C22_CountsAllRequests ==
    \A i \in DOMAIN trace :
        BlockedAsSuspicious(i) =>
            Len(RecentRequests(trace[i].post.request_counts[trace[i].ip],
                               trace[i].t))
                >= config.suspicious_request_threshold

\* with a threshold of 2, the first suspicious request of an IP is
\* blocked because an ordinary request of the IP came before it
C22_Witness ==
    \E i \in DOMAIN trace :
        /\ config.suspicious_request_threshold = 2
        /\ BlockedAsSuspicious(i)
        /\ Cardinality(SuspiciousInWindow(i)) = 1
        /\ \E j \in 1..(i - 1) :
               /\ trace[j].ip = trace[i].ip
               /\ ~trace[j].matches /\ ~trace[j].should_block

----------------------------------------------------------------------------
(* The counters rate_limit_hits and ip_blocks, under Spec.                 *)

RateLimitDenials ==
    { i \in DOMAIN trace : trace[i].reason = ReasonRateLimit }

\* the requests during which block_ip put the IP on the block list
BlockListAdditions ==
    { i \in DOMAIN trace :
         /\ config.enable_ip_blocking
         /\ trace[i].should_block
         /\ trace[i].reason # ReasonBlocked }

\* C23 as stated: rate_limit_hits is the number of requests denied with
\* "Rate limit exceeded" and ip_blocks the number of times an IP was added
\* to the block list.
C23_CountersTrackEvents ==
    /\ attack_stats.rate_limit_hits = Cardinality(RateLimitDenials)
    /\ attack_stats.ip_blocks = Cardinality(BlockListAdditions)

\* both counters stay at the 0 that __init__ gives them
C23_CountersStayZero ==
    /\ attack_stats.rate_limit_hits = 0
    /\ attack_stats.ip_blocks = 0

\* a request was denied for the rate limit, its IP is on the block list,
\* and both counters are 0
C23_Witness ==
    \E i \in RateLimitDenials :
        /\ i \in BlockListAdditions
        /\ trace[i].ip \in DOMAIN trace[i].post.blocked_ips
        /\ trace[i].post.attack_stats.rate_limit_hits = 0
        /\ trace[i].post.attack_stats.ip_blocks = 0

----------------------------------------------------------------------------
(* check_rate_limit called directly, for any IP at any reading of the      *)
(* clock, with rate limiting enabled.                                      *)

MaxRateOps == 4

RateConfigs ==
    { [DefaultConfig EXCEPT !.max_requests_per_minute = m,
                            !.block_duration = TimeStep] : m \in 1..MaxM }

InitRate ==
    /\ config \in RateConfigs
    /\ now = 0
    /\ blocked_ips = InitState.blocked_ips
    /\ request_counts = InitState.request_counts
    /\ attack_stats = InitState.attack_stats
    /\ recent_attacks = InitState.recent_attacks
    /\ ip_threat_scores = InitState.ip_threat_scores
    /\ log_files = InitState.log_files
    /\ response = NoResponse
    /\ trace = << >>
    /\ classified = NoClassified
    /\ static_files = EmptyDict
    /\ client_cache = EmptyDict

CheckRateLimit(ip) ==
    /\ Len(trace) < MaxRateOps
    /\ \E r \in {check_rate_limit(State, config, ip, now, TRUE)} :
           /\ SetState(r.st)
           /\ trace' = Append(trace,
                  [ip |-> ip, t |-> now, ret |-> r.ret,
                   pre |-> DictGet(request_counts, ip, << >>),
                   post |-> DictGet(r.st.request_counts, ip, << >>)])
    /\ UNCHANGED <<config, now, response, classified, srvVars>>

NextRate ==
    \/ Tick
    \/ \E ip \in IPs : CheckRateLimit(ip)

SpecRate == InitRate /\ [][NextRate]_vars

\* C24: after every check_rate_limit call the timestamp sequence of the
\* checked IP has at most max_requests_per_minute entries, each less than
\* 60 s before the call; an allowed call adds its timestamp to the entries
\* that were still in the window, a denied call adds nothing.
C24_RateWindowBound ==
    \A i \in DOMAIN trace :
        LET e == trace[i]
            kept == SelectSeq(e.pre, LAMBDA x : e.t - x < RATE_WINDOW)
        IN  /\ Len(e.post) <= config.max_requests_per_minute
            /\ \A n \in DOMAIN e.post :
                   e.post[n] <= e.t /\ e.t - e.post[n] < RATE_WINDOW
            /\ e.ret => e.post = Append(kept, e.t)
            /\ ~e.ret => e.post = kept

\* a call dropped a timestamp that had left the window, and a later call
\* of the same IP was denied with the sequence full
C24_Witness ==
    \E i, j \in DOMAIN trace :
        /\ i < j
        /\ trace[i].ip = trace[j].ip
        /\ trace[i].ret /\ Len(trace[i].post) <= Len(trace[i].pre)
        /\ ~trace[j].ret
        /\ Len(trace[j].post) = config.max_requests_per_minute

----------------------------------------------------------------------------
(* The counter blocked_requests, under Spec.                               *)

DeniedRequests == { i \in DOMAIN trace : trace[i].should_block }

BlockedRequestsGrowth(i) ==
    trace[i].post.attack_stats.blocked_requests
        - trace[i].pre.attack_stats.blocked_requests

\* C25 as stated: a denied request raises blocked_requests by exactly one,
\* an allowed request leaves it alone, and the counter is the number of
\* denied requests.
C25_OnePerBlock ==
    /\ \A i \in DOMAIN trace :
           BlockedRequestsGrowth(i) = IF trace[i].should_block THEN 1 ELSE 0
    /\ attack_stats.blocked_requests = Cardinality(DeniedRequests)

\* what the code does: one for a request of an IP already blocked, two for
\* a request denied by the rate limit or the suspicious threshold, where
\* block_ip and security_middleware each call log_blocked_request
C25_TwoWhenBlockIpRuns ==
    \A i \in DOMAIN trace :
        BlockedRequestsGrowth(i) =
            IF ~trace[i].should_block THEN 0
            ELSE IF trace[i].reason = ReasonBlocked THEN 1
            ELSE 2

\* one request denied for the rate limit, and blocked_requests is 2
C25_Witness ==
    /\ Cardinality(DeniedRequests) = 1
    /\ \E i \in DeniedRequests : trace[i].reason = ReasonRateLimit
    /\ attack_stats.blocked_requests = 2

----------------------------------------------------------------------------
(* A blocked IP that keeps sending requests.  The clock runs on past the   *)
(* last moment a block can start by one block_duration, one IP sends       *)
(* ordinary and suspicious requests at any time, and response keeps what   *)
(* the last request met and its number.  Requests that make the counters  *)
(* and logs grow are sent as long as MaxLogged of them have not been       *)
(* counted; the                                                            *)
(* ordinary request of an IP whose block has run out is always sent.       *)
(* Suspicious requests stop at MaxTime, so that every block they start     *)
(* runs out before the clock stops.                                        *)

MaxLogged == 4

\* the IP that is followed
AdmitIPs == {"a"}

AdmitConfigs ==
    { [DefaultConfig EXCEPT !.max_requests_per_minute = m,
                            !.suspicious_request_threshold = k,
                            !.block_duration = 2 * TimeStep] :
        m \in 1..MaxM, k \in 1..MaxK }

AdmitHorizon == MaxTime + 2 * TimeStep

NoStart == 0 - 1

BlockStart(blocked, ip) == DictGet(blocked, ip, NoStart)

NoAdmitResponse ==
    [present |-> FALSE, n |-> 0, ip |-> "", t |-> 0, matches |-> FALSE,
     should_block |-> FALSE, reason |-> NoReason,
     pre_start |-> NoStart, post_start |-> NoStart]

InitAdmit ==
    /\ config \in AdmitConfigs
    /\ now = 0
    /\ blocked_ips = InitState.blocked_ips
    /\ request_counts = InitState.request_counts
    /\ attack_stats = InitState.attack_stats
    /\ recent_attacks = InitState.recent_attacks
    /\ ip_threat_scores = InitState.ip_threat_scores
    /\ log_files = InitState.log_files
    /\ response = NoAdmitResponse
    /\ trace = << >>
    /\ classified = NoClassified
    /\ static_files = EmptyDict
    /\ client_cache = EmptyDict

AdmitTick ==
    /\ now + TimeStep <= AdmitHorizon
    /\ now' = now + TimeStep
    /\ UNCHANGED <<config, blocked_ips, request_counts, monVars, response,
                   trace, classified, srvVars>>

\* the block of ip is still in the list and has run out
BlockRunOut(ip) ==
    /\ ip \in DOMAIN blocked_ips
    /\ now - blocked_ips[ip] >= config.block_duration

Logged == attack_stats.blocked_requests + attack_stats.suspicious_requests

AdmitRequest(req) ==
    /\ is_suspicious_request(config, req).suspicious => now <= MaxTime
    /\ \/ Logged < MaxLogged
       \/ BlockRunOut(req.client)
              /\ ~is_suspicious_request(config, req).suspicious
    /\ \E r \in {security_middleware(State, config, req, now, TRUE)} :
           /\ SetState(r.st)
           /\ response' =
                  [present |-> TRUE, n |-> response.n + 1,
                   ip |-> get_client_ip(req), t |-> now,
                   matches |-> is_suspicious_request(config, req).suspicious,
                   should_block |-> r.should_block, reason |-> r.reason,
                   pre_start |-> BlockStart(blocked_ips, get_client_ip(req)),
                   post_start |->
                       BlockStart(r.st.blocked_ips, get_client_ip(req))]
    /\ UNCHANGED <<config, now, trace, classified, srvVars>>

OrdinaryRequest(ip) == Request("GET", PathHealth, << >>, EmptyDict, ip)
ScanningRequest(ip) == Request("GET", PathGitConfig, << >>, EmptyDict, ip)

NextAdmit ==
    \/ AdmitTick
    \/ \E ip \in AdmitIPs : AdmitRequest(OrdinaryRequest(ip))
    \/ \E ip \in AdmitIPs : AdmitRequest(ScanningRequest(ip))

\* the block starts response can show
BlockStarts == {NoStart} \cup 0..AdmitHorizon

\* the steps of AdmitRequest(OrdinaryRequest(ip)), told by what they leave
\* in response: the next request number, the IP, no match, the clock as
\* it was; such a step can be taken when AdmitRequest lets the request in
OrdinaryRequestStep(ip) ==
    /\ Logged < MaxLogged \/ BlockRunOut(ip)
    /\ now' = now
    /\ response' \in
           [present : {TRUE}, n : {response.n + 1}, ip : {ip}, t : {now},
            matches : {FALSE}, should_block : BOOLEAN,
            reason : {NoReason, ReasonBlocked, ReasonRateLimit},
            pre_start : BlockStarts, post_start : BlockStarts]

\* time passes, and the IP goes on sending ordinary requests
SpecAdmit ==
    /\ InitAdmit /\ [][NextAdmit]_vars
    /\ WF_vars(AdmitTick)
    /\ \A ip \in AdmitIPs : WF_<<now, response>>(OrdinaryRequestStep(ip))

\* the last request came while a block of its IP was in the list
MetBlock == response.present /\ response.pre_start # NoStart

\* the last request: while the block was active it was denied and the
\* block start stayed; once the block had run out, an ordinary request was
\* allowed
BlockNotExtended ==
    MetBlock =>
        IF response.t - response.pre_start < config.block_duration
        THEN /\ response.should_block
             /\ response.reason = ReasonBlocked
             /\ response.post_start = response.pre_start
        ELSE ~response.matches => ~response.should_block

\* the last request was an ordinary request of ip, allowed when the block
\* of ip had run out
Admitted(ip) ==
    /\ MetBlock
    /\ response.ip = ip
    /\ ~response.should_block
    /\ response.t - response.pre_start >= config.block_duration
    /\ ip \notin DOMAIN blocked_ips

----------------------------------------------------------------------------
(* The pipeline with enable_rate_limiting switched off: the same requests  *)
(* and clock as in Spec, under configurations whose only change from the   *)
(* defaults, besides the scaled numbers, is that flag.                     *)

NoRateConfigs ==
    { [c EXCEPT !.enable_rate_limiting = FALSE] : c \in SecConfigs }

InitNoRate ==
    /\ config \in NoRateConfigs
    /\ now = 0
    /\ blocked_ips = InitState.blocked_ips
    /\ request_counts = InitState.request_counts
    /\ attack_stats = InitState.attack_stats
    /\ recent_attacks = InitState.recent_attacks
    /\ ip_threat_scores = InitState.ip_threat_scores
    /\ log_files = InitState.log_files
    /\ response = NoResponse
    /\ trace = << >>
    /\ classified = NoClassified
    /\ static_files = EmptyDict
    /\ client_cache = EmptyDict

NextNoRate ==
    \/ Tick
    \/ \E req \in SecRequests : HandleRequest(req)

SpecNoRate == InitNoRate /\ [][NextNoRate]_vars

\* no timestamp is held for any IP
NoTimestamps(counts) == \A ip \in DOMAIN counts : counts[ip] = << >>

\* C27: with enable_rate_limiting false, threat detection and IP blocking
\* on and suspicious_request_threshold >= 1, no timestamp is recorded for
\* any IP, count_suspicious_requests is 0 for every IP at every time, no IP
\* enters the block list and every request is allowed, suspicious or not.
C27_NoRateLimitNoBlock ==
    /\ NoTimestamps(request_counts)
    /\ \A ip \in IPs : count_suspicious_requests(State, ip, now).ret = 0
    /\ blocked_ips = EmptyDict
    /\ attack_stats.blocked_requests = 0
    /\ \A i \in DOMAIN trace :
           /\ ~trace[i].should_block
           /\ trace[i].reason = NoReason
           /\ NoTimestamps(trace[i].post.request_counts)

\* one IP has sent more suspicious requests than the threshold at one time
C27_Witness ==
    \E ip \in IPs :
        /\ Cardinality({ i \in DOMAIN trace :
                            /\ trace[i].ip = ip /\ trace[i].t = now
                            /\ trace[i].matches })
               > config.suspicious_request_threshold
        /\ ip \in DOMAIN request_counts
        /\ attack_stats.suspicious_requests
               > config.suspicious_request_threshold

----------------------------------------------------------------------------
(* The shape of a 206 answer, under SpecRange.                             *)

\* the answer is 206 for a file of at least one byte
Partial206 ==
    /\ response.present
    /\ response.status = 206
    /\ Len(static_files[RangeFile].content) >= 1

\* C28 as stated: every 206 answer for a file of size S >= 1 has
\* 0 <= start <= end <= S-1 in Content-Range, Content-Length equal to
\* end - start + 1 >= 1, and a body of exactly Content-Length bytes.
C28_WellFormed206 ==
    Partial206 =>
        LET S == Len(static_files[RangeFile].content)
            cr == response.headers["content-range"]
            cl == response.headers["content-length"]
        IN  /\ 0 <= cr.start /\ cr.start <= cr.end /\ cr.end <= S - 1
            /\ cl = cr.end - cr.start + 1
            /\ cl >= 1
            /\ Len(response.body) = cl

\* what the handler gives: 0 <= start, end <= S-1 and Content-Length =
\* end - start + 1, which is at least -1; the 206 is well formed exactly
\* when start <= end; with start = end + 1 the body is empty and
\* Content-Length 0; with start = end + 2 Content-Length is -1 and the body
\* is the file from start to its end
C28_Shape206 ==
    Partial206 =>
        LET content == static_files[RangeFile].content
            S == Len(content)
            cr == response.headers["content-range"]
            cl == response.headers["content-length"]
        IN  /\ 0 <= cr.start /\ cr.end <= S - 1 /\ cr.size = S
            /\ cl = cr.end - cr.start + 1
            /\ cl >= 0 - 1
            /\ cr.start <= cr.end =>
                   /\ cl >= 1
                   /\ response.body = SubSeq(content, cr.start + 1, cr.end + 1)
            /\ cl = 0 => response.body = << >>
            /\ cl = 0 - 1 =>
                   response.body = SubSeq(content, cr.start + 1, S)

\* Range: bytes=2-1 on the 3-byte file: 206 with Content-Range 2-1/3,
\* Content-Length 0 and an empty body
C28_Witness ==
    /\ response.present
    /\ NoValidatorApplies
    /\ "range" \in DOMAIN response.req.headers
    /\ response.req.headers["range"] = RangeReversed
    /\ static_files[RangeFile].content = Content3
    /\ response.status = 206
    /\ response.headers["content-range"] = [start |-> 2, end |-> 1, size |-> 3]
    /\ response.headers["content-length"] = 0
    /\ response.body = << >>

\* Range: bytes=5-3 on the 10-byte file: 206 with Content-Length -1 and a
\* body of the five bytes 5..9
C28_WitnessNegativeLength ==
    /\ response.present
    /\ static_files[RangeFile].content = Content10
    /\ response.status = 206
    /\ response.headers["content-range"] = [start |-> 5, end |-> 3, size |-> 10]
    /\ response.headers["content-length"] = 0 - 1
    /\ Len(response.body) = 5

\* Range: bytes=5- on the 3-byte file: read(-2) raises ValueError and the
\* whole file is served with status 200
C28_WitnessReadRaises ==
    /\ response.present
    /\ NoValidatorApplies
    /\ "range" \in DOMAIN response.req.headers
    /\ response.req.headers["range"] = RangeOpenEnd
    /\ static_files[RangeFile].content = Content3
    /\ WholeFile

----------------------------------------------------------------------------
(* The SQL rule of is_suspicious_request, under SpecPattern.               *)

\* the lower-cased values of the query parameters as the client wrote them,
\* before str(request.query_params) encodes them
RawQueryValues ==
    { Lower(classified.req.query[i][2]) : i \in DOMAIN classified.req.query }

\* C29: the reason "SQL injection pattern" is never returned: each of the
\* four SQL patterns contains an entry of the suspicious parameters, so a
\* string that contains an SQL pattern is matched by the parameter rule,
\* which is applied first; no classified request gets the SQL reason.
C29_SqlRuleNeverDecides ==
    /\ \A s \in SqlPatterns : MatchParams(s) # {}
    /\ \A raw \in RawQueryValues \cup {ClassifiedQuery} :
           MatchSql(raw) # {} => MatchParams(raw) # {}
    /\ classified.done => classified.result.group # G_SQL

\* ?q=union select on a plain path with threat detection on: the value
\* contains an SQL pattern and the parameter rule gives the reason
C29_Witness ==
    /\ classified.done
    /\ config.enable_threat_detection
    /\ classified.req.path = PathSearch
    /\ classified.req.query = QueryUnionSelect
    /\ \E raw \in RawQueryValues : MatchSql(raw) # {}
    /\ classified.result.suspicious
    /\ classified.result.group = G_PARAM
    /\ <<"u", "n", "i", "o", "n">> \in classified.result.patterns

----------------------------------------------------------------------------
(* Per-IP state: the pipeline with two requests of "b" (plain and          *)
(* suspicious), a plain one of "a" and a plain one that a proxy at "a"     *)
(* forwards for "b", at most MaxIsoReq of them in a behaviour.             *)

MaxIsoReq == 3

IsoConfigs ==
    { [DefaultConfig EXCEPT !.max_requests_per_minute = m,
                            !.suspicious_request_threshold = k,
                            !.block_duration = TimeStep] :
        m \in 1..MaxM, k \in 1..MaxK }

IsoRequests ==
    { Request("GET", PathHealth, << >>, EmptyDict, ip) : ip \in IPs } \cup
    { Request("GET", PathGitConfig, << >>, EmptyDict, "b") } \cup
    { Request("GET", PathHealth, << >>,
              [h \in {"x-forwarded-for"} |-> <<"b", "a">>], "a") }

InitIsolation ==
    /\ config \in IsoConfigs
    /\ now = 0
    /\ blocked_ips = InitState.blocked_ips
    /\ request_counts = InitState.request_counts
    /\ attack_stats = InitState.attack_stats
    /\ recent_attacks = InitState.recent_attacks
    /\ ip_threat_scores = InitState.ip_threat_scores
    /\ log_files = InitState.log_files
    /\ response = NoResponse
    /\ trace = << >>
    /\ classified = NoClassified
    /\ static_files = EmptyDict
    /\ client_cache = EmptyDict

IsoRequest(req) ==
    /\ Len(trace) < MaxIsoReq
    /\ \E r \in {security_middleware(State, config, req, now, TRUE)} :
           /\ SetState(r.st)
           /\ response' = r.response
           /\ trace' = Append(trace,
                  [ip |-> get_client_ip(req), t |-> now, req |-> req,
                   matches |-> is_suspicious_request(config, req).suspicious,
                   pre |-> Snapshot(State), post |-> Snapshot(r.st),
                   should_block |-> r.should_block, reason |-> r.reason,
                   response |-> r.response])
    /\ UNCHANGED <<config, now, classified, srvVars>>

NextIsolation ==
    \/ Tick
    \/ \E req \in IsoRequests : IsoRequest(req)

SpecIsolation == InitIsolation /\ [][NextIsolation]_vars

\* the entry of ip in a dict, with its presence
Entry(d, ip) == [present |-> ip \in DOMAIN d, value |-> DictGet(d, ip, 0)]

\* what the security state holds for one IP
PerIpState(snap, ip) ==
    [request_counts |->
         [present |-> ip \in DOMAIN snap.request_counts,
          value |-> DictGet(snap.request_counts, ip, << >>)],
     blocked_ips |-> Entry(snap.blocked_ips, ip),
     ip_threat_scores |-> Entry(snap.ip_threat_scores, ip)]

\* the state record of a snapshot; the logs play no part in a decision
SnapshotState(snap) == Extend(snap, [log_files |-> log_files])

\* (should_block, reason) of analyze_request
Decision(snap, req, t) ==
    LET a == analyze_request(SnapshotState(snap), config, req, t, TRUE)
    IN  <<a.should_block, a.reason>>

\* every IP the model names: peers and forwarded addresses
KnownIPs == IPs \cup { get_client_ip(req) : req \in IsoRequests }

\* C30: a request attributed to IP A leaves, for every other IP B, the
\* timestamp sequence, the block entry and the threat score as they were,
\* and the decision for a request of B at that time is the same before and
\* after the request of A.
C30_PerIpIsolation ==
    /\ \A i \in DOMAIN trace :
           \A B \in KnownIPs \ {trace[i].ip} :
               PerIpState(trace[i].post, B) = PerIpState(trace[i].pre, B)
    /\ trace # << >> =>
           LET last == trace[Len(trace)]
           IN  \A req \in IsoRequests :
                   get_client_ip(req) # last.ip =>
                       Decision(last.post, req, last.t)
                           = Decision(last.pre, req, last.t)

\* a request of "a" is denied and puts "a" on the block list while "b" has
\* a timestamp on record and stays off the list
C30_Witness ==
    \E i \in DOMAIN trace :
        /\ trace[i].ip = "a"
        /\ trace[i].should_block
        /\ "a" \notin DOMAIN trace[i].pre.blocked_ips
        /\ "a" \in DOMAIN trace[i].post.blocked_ips
        /\ DictGet(trace[i].pre.request_counts, "b", << >>) # << >>
        /\ PerIpState(trace[i].post, "b") = PerIpState(trace[i].pre, "b")
        /\ "b" \notin DOMAIN trace[i].post.blocked_ips

====
